---- MODULE Spec2Model ----
(***************************************************************************)
(* The validation engine of the claims-packet agent                        *)
(* (src/src/extraction_review/validators): the four checkers and the       *)
(* orchestrator run_all_validations, as operators over a document list,    *)
(* and the calls a caller makes on them as actions; and the step of the    *)
(* workflow that builds the document list from the classified files        *)
(* (process_file.py, extract_documents).                                   *)
(*                                                                         *)
(* Encoding of Python values.  Every value a dict or a field can hold is   *)
(* boxed: None is the empty tuple, any other value v is <<v>>.  A dict is  *)
(* a function from its present keys to boxed values, so that a key can be  *)
(* absent (not in the DOMAIN), null (mapped to None) or present.  Money    *)
(* is an integer number of cents (the unit of TOLERANCE = 0.01); a date    *)
(* is an integer day number.                                               *)
(***************************************************************************)
EXTENDS Integers, Sequences, FiniteSets, TLC

VARIABLES
    documents,   \* the list[ProcessedDocument] handed to the engine
    today,       \* date.today(), as a day number
    op,          \* the engine function called last ("none" before any call)
    err,         \* "none", or the exception that call propagated
    results,     \* the list that call returned (empty when it raised)
    previous,    \* None, or the boxed list of the run_all_validations before
    classified_docs, \* WorkflowState.classified_docs: label and content of
                     \* each file of the packet (empty outside a workflow)
    actions      \* the action list summarize built (empty before it ran)

vars == <<documents, today, op, err, results, previous, classified_docs, actions>>

----------------------------------------------------------------------------
(* Bounds of the model *)

MaxItems == 2      \* line items per document
MaxDocs == 2       \* documents per packet
MaxBillingDocs == 3 \* documents per packet of the billing reconciliation
MaxDate == 2       \* the latest date of service
MaxDay == 1        \* days the clock may advance
MaxDeadline == 32  \* the latest appeal deadline, in days from the first day

----------------------------------------------------------------------------
(* Python values *)

None == <<>>
Some(v) == <<v>>
IsNone(v) == Len(v) = 0
Val(v) == v[1]
EmptyDict == <<>>

\* dict.get(key) and dict.get(key, default)
Get(d, k) == IF k \in DOMAIN d THEN d[k] ELSE None
GetD(d, k, default) == IF k \in DOMAIN d THEN d[k] ELSE default

\* truthiness of a boxed number and of a boxed list or string
TruthyNum(v) == ~IsNone(v) /\ Val(v) # 0
TruthyList(v) == ~IsNone(v) /\ Len(Val(v)) > 0

\* `x or 0` for an optional number
OrZero(v) == IF TruthyNum(v) THEN Val(v) ELSE 0

Abs(x) == IF x < 0 THEN -x ELSE x

----------------------------------------------------------------------------
(* schemas/common.py *)

ValidationSeverity == {"HIGH", "MEDIUM", "LOW", "INFO"}
ValidationStatus == {"PASS", "MISMATCH", "WARNING", "ERROR", "INFO"}
DocumentType ==
    {"EOB", "CMS-1500", "UB-04", "MEDICAL_BILL", "PHARMACY_RECEIPT",
     "LAB_REPORT", "UNKNOWN"}

\* The interpolated values of a detail f-string: the document id, the
\* amounts, the provider names, the service codes, and the urgent marker.
Detail(doc, nums, names, codes, urgent) ==
    [doc |-> doc, nums |-> nums, names |-> names, codes |-> codes,
     urgent |-> urgent]

\* potential_overcharge is a boxed rational num/den (den is 2 only for the
\* halved total of the duplicate detector).
Money(n) == Some([num |-> n, den |-> 1])

ValidationResult(name, status, severity, detail, overcharge, rec) ==
    [check_name |-> name, status |-> status, severity |-> severity,
     detail |-> detail, potential_overcharge |-> overcharge,
     recommendation |-> rec]

ProcessedDocument(doc_id, type, data) ==
    [envelope |-> [doc_id |-> doc_id, classified_type |-> type],
     extracted_data |-> data]

----------------------------------------------------------------------------
(* validators/math_checks.py *)

TOLERANCE == 1

\* a comparison that also flags a difference of exactly the tolerance
ReachesTolerance(a, b) == Abs(a - b) >= TOLERANCE

\* abs(a - b) > TOLERANCE
ExceedsTolerance(a, b) == Abs(a - b) > TOLERANCE

RECURSIVE _safe_sum(_)
_safe_sum(values) ==
    IF values = <<>> THEN 0
    ELSE (IF IsNone(Head(values)) THEN 0 ELSE Val(Head(values)))
         + _safe_sum(Tail(values))

\* [item.get(key) for item in line_items]
Column(items, key) == [i \in 1..Len(items) |-> Get(items[i], key)]

\* the difference without abs()
SignedOvercharge(line_sum, total_billed) == Money(line_sum - total_billed)

\* potential_overcharge=abs(line_sum - total_billed)
BilledOvercharge(line_sum, total_billed) == Money(Abs(line_sum - total_billed))

EobBilledSum(data, doc_id) ==
    LET line_items == GetD(data, "line_items", Some(<<>>))
        total_billed == Get(data, "total_billed")
    IN  IF ~IsNone(total_billed) /\ TruthyList(line_items)
        THEN LET line_sum == _safe_sum(Column(Val(line_items), "billed_amount"))
             IN  IF ExceedsTolerance(line_sum, Val(total_billed))
                 THEN << ValidationResult("eob_billed_sum", "MISMATCH", "MEDIUM",
                            Detail(doc_id, <<line_sum, Val(total_billed)>>,
                                   <<>>, <<>>, FALSE),
                            BilledOvercharge(line_sum, Val(total_billed)),
                            Some("Review the EOB for calculation errors")) >>
                 ELSE <<>>
        ELSE <<>>

EobPaidSum(data, doc_id) ==
    LET line_items == GetD(data, "line_items", Some(<<>>))
        total_insurance_paid == Get(data, "total_insurance_paid")
    IN  IF ~IsNone(total_insurance_paid) /\ TruthyList(line_items)
        THEN LET line_sum == _safe_sum(Column(Val(line_items), "insurance_paid"))
             IN  IF ExceedsTolerance(line_sum, Val(total_insurance_paid))
                 THEN << ValidationResult("eob_paid_sum", "MISMATCH", "MEDIUM",
                            Detail(doc_id, <<line_sum, Val(total_insurance_paid)>>,
                                   <<>>, <<>>, FALSE),
                            None,
                            Some("Contact insurance to verify payment amounts")) >>
                 ELSE <<>>
        ELSE <<>>

\* a guard that lets a negative breakdown through
BreakdownNonzero(breakdown_sum) == breakdown_sum # 0

\* the second conjunct of the guard of check 3
BreakdownPositive(breakdown_sum) == breakdown_sum > 0

EobPatientResponsibility(data, doc_id) ==
    LET total_patient == Get(data, "total_patient_responsibility")
        total_deductible == OrZero(Get(data, "total_deductible"))
        total_copay == OrZero(Get(data, "total_copay"))
        total_coinsurance == OrZero(Get(data, "total_coinsurance"))
        breakdown_sum == total_deductible + total_copay + total_coinsurance
    IN  IF ~IsNone(total_patient)
           /\ ExceedsTolerance(breakdown_sum, Val(total_patient))
           /\ BreakdownPositive(breakdown_sum)
        THEN << ValidationResult("eob_patient_responsibility_breakdown",
                   "MISMATCH", "MEDIUM",
                   Detail(doc_id,
                          <<total_deductible, total_copay, total_coinsurance,
                            breakdown_sum, Val(total_patient)>>,
                          <<>>, <<>>, FALSE),
                   IF breakdown_sum < Val(total_patient)
                       THEN Money(Abs(breakdown_sum - Val(total_patient)))
                       ELSE None,
                   Some("Verify patient responsibility calculation with insurance")) >>
        ELSE <<>>

_check_eob_math(data, doc_id) ==
    EobBilledSum(data, doc_id) \o EobPaidSum(data, doc_id)
        \o EobPatientResponsibility(data, doc_id)

\* an overcharge in both directions
AbsoluteOvercharge(total_charges, line_sum) ==
    Money(Abs(total_charges - line_sum))

\* potential_overcharge=total_charges - line_sum if total_charges > line_sum
ChargesOvercharge(total_charges, line_sum) ==
    IF total_charges > line_sum THEN Money(total_charges - line_sum) ELSE None

BillLineItemSum(data, doc_id) ==
    LET line_items == GetD(data, "line_items", Some(<<>>))
        total_charges == Get(data, "total_charges")
    IN  IF ~IsNone(total_charges) /\ TruthyList(line_items)
        THEN LET line_sum == _safe_sum(Column(Val(line_items), "amount"))
             IN  IF ExceedsTolerance(line_sum, Val(total_charges))
                 THEN << ValidationResult("bill_line_item_sum", "ERROR", "HIGH",
                            Detail(doc_id, <<line_sum, Val(total_charges)>>,
                                   <<>>, <<>>, FALSE),
                            ChargesOvercharge(Val(total_charges), line_sum),
                            Some("Request itemized bill from provider to verify charges")) >>
                 ELSE <<>>
        ELSE <<>>

\* a balance that forgets what the patient has paid
BalanceBeforePatient(total_charges, adjustments, ins_payments, patient_payments) ==
    total_charges - adjustments - ins_payments

\* expected_balance = total_charges - adjustments - ins_payments - patient_payments
ExpectedBalance(total_charges, adjustments, ins_payments, patient_payments) ==
    total_charges - adjustments - ins_payments - patient_payments

\* the guard of check 5: both the balance and the total must be stated
BalanceDueChecked(balance_due, total_charges) ==
    ~IsNone(balance_due) /\ ~IsNone(total_charges)

BillBalanceDue(data, doc_id) ==
    LET total_charges == Get(data, "total_charges")
        balance_due == Get(data, "balance_due")
    IN  IF BalanceDueChecked(balance_due, total_charges)
        THEN LET adjustments == OrZero(Get(data, "insurance_adjustments"))
                 ins_payments == OrZero(Get(data, "insurance_payments"))
                 patient_payments == OrZero(Get(data, "patient_payments"))
                 expected_balance ==
                     ExpectedBalance(Val(total_charges), adjustments,
                                     ins_payments, patient_payments)
             IN  IF ExceedsTolerance(expected_balance, Val(balance_due))
                 THEN << ValidationResult("bill_balance_due_math", "MISMATCH",
                            "MEDIUM",
                            Detail(doc_id,
                                   <<expected_balance, Val(total_charges),
                                     adjustments, ins_payments, patient_payments,
                                     Val(balance_due)>>,
                                   <<>>, <<>>, FALSE),
                            IF Val(balance_due) > expected_balance
                                THEN Money(Val(balance_due) - expected_balance)
                                ELSE None,
                            Some("Contact billing department to clarify balance calculation")) >>
                 ELSE <<>>
        ELSE <<>>

\* a bill check that reports a PASS result for a bill it finds nothing in
BillMathWithPass(data, doc_id) ==
    LET found == BillLineItemSum(data, doc_id) \o BillBalanceDue(data, doc_id)
    IN  IF found # <<>> THEN found
        ELSE << ValidationResult("bill_line_item_sum", "PASS", "HIGH",
                    Detail(doc_id, <<>>, <<>>, <<>>, FALSE), None, None) >>

_check_bill_math(data, doc_id) ==
    BillLineItemSum(data, doc_id) \o BillBalanceDue(data, doc_id)

MathOfDocument(doc) ==
    LET doc_type == doc.envelope.classified_type
        data == doc.extracted_data
        doc_id == doc.envelope.doc_id
    IN  IF doc_type = "EOB" THEN _check_eob_math(data, doc_id)
        ELSE IF doc_type = "MEDICAL_BILL" THEN _check_bill_math(data, doc_id)
        ELSE <<>>

RECURSIVE run_math_checks(_)
run_math_checks(docs) ==
    IF docs = <<>> THEN <<>>
    ELSE MathOfDocument(Head(docs)) \o run_math_checks(Tail(docs))

----------------------------------------------------------------------------
(* Strings.  A provider name is a sequence of one-character strings, so    *)
(* that lower(), strip(), `in` and replace() are computed and not assumed. *)

UpperCase ==
    <<"A", "B", "C", "D", "E", "F", "G", "H", "I", "J", "K", "L", "M",
      "N", "O", "P", "Q", "R", "S", "T", "U", "V", "W", "X", "Y", "Z">>
LowerCase ==
    <<"a", "b", "c", "d", "e", "f", "g", "h", "i", "j", "k", "l", "m",
      "n", "o", "p", "q", "r", "s", "t", "u", "v", "w", "x", "y", "z">>

LowerChar(c) ==
    IF \E i \in 1..Len(UpperCase) : UpperCase[i] = c
    THEN LowerCase[CHOOSE i \in 1..Len(UpperCase) : UpperCase[i] = c]
    ELSE c

\* str.lower()
Lower(s) == [i \in 1..Len(s) |-> LowerChar(s[i])]

\* str.strip()
RECURSIVE LStrip(_)
LStrip(s) == IF s # <<>> /\ Head(s) = " " THEN LStrip(Tail(s)) ELSE s
RECURSIVE RStrip(_)
RStrip(s) ==
    IF s # <<>> /\ s[Len(s)] = " " THEN RStrip(SubSeq(s, 1, Len(s) - 1)) ELSE s
Strip(s) == RStrip(LStrip(s))

\* `a in b` for strings
StrIn(a, b) ==
    \E i \in 0..(Len(b) - Len(a)) : SubSeq(b, i + 1, i + Len(a)) = a

\* str.replace(old, new), leftmost first, for a non-empty old
RECURSIVE Replace(_, _, _)
Replace(s, old, new) ==
    IF Len(s) < Len(old) THEN s
    ELSE IF SubSeq(s, 1, Len(old)) = old
         THEN new \o Replace(SubSeq(s, Len(old) + 1, Len(s)), old, new)
         ELSE <<Head(s)>> \o Replace(Tail(s), old, new)

\* truthiness of a boxed string: a name or status (a character sequence)
\* and a code or free text (kept as one atom)
TruthyStr(v) == ~IsNone(v) /\ Val(v) # <<>>
TruthyText(v) == ~IsNone(v) /\ Val(v) # ""

----------------------------------------------------------------------------
(* validators/billing_reconciliation.py *)

S_hospital == <<"h", "o", "s", "p", "i", "t", "a", "l">>
S_hosp == <<"h", "o", "s", "p">>
S_medical == <<"m", "e", "d", "i", "c", "a", "l">>
S_med == <<"m", "e", "d">>
S_center == <<"c", "e", "n", "t", "e", "r">>
S_ctr == <<"c", "t", "r">>
S_healthcare == <<"h", "e", "a", "l", "t", "h", "c", "a", "r", "e">>
S_health == <<"h", "e", "a", "l", "t", "h">>
S_Unknown == <<"U", "n", "k", "n", "o", "w", "n">>
S_provider == <<"p", "r", "o", "v", "i", "d", "e", "r">>

abbrev_map ==
    << <<S_hospital, S_hosp>>, <<S_medical, S_med>>, <<S_center, S_ctr>>,
       <<S_healthcare, S_health>> >>

_normalize_provider_name(name) ==
    IF ~TruthyStr(name) THEN <<>> ELSE Strip(Lower(Val(name)))

RECURSIVE Abbreviate(_, _)
Abbreviate(n, i) ==
    IF i > Len(abbrev_map) THEN n
    ELSE Abbreviate(Replace(n, abbrev_map[i][1], abbrev_map[i][2]), i + 1)

_providers_match(name1, name2) ==
    IF name1 = <<>> \/ name2 = <<>> THEN FALSE
    ELSE IF name1 = name2 THEN TRUE
    ELSE IF StrIn(name1, name2) \/ StrIn(name2, name1) THEN TRUE
    ELSE LET n1 == Abbreviate(name1, 1)
             n2 == Abbreviate(name2, 1)
         IN  n1 = n2 \/ StrIn(n1, n2) \/ StrIn(n2, n1)

\* A date-valued field holds None, a date or ISO string ([iso |-> TRUE]),
\* or a string date.fromisoformat rejects ([iso |-> FALSE]).
IsoDate(d) == Some([iso |-> TRUE, day |-> d])
Malformed == Some([iso |-> FALSE, day |-> 0])

_parse_date(value) ==
    IF IsNone(value) THEN None
    ELSE IF Val(value).iso THEN Some(Val(value).day)
    ELSE None

_dates_overlap(start1, end1, start2, end2) ==
    IF IsNone(start1) /\ IsNone(end1) /\ IsNone(start2) /\ IsNone(end2)
    THEN TRUE
    ELSE LET date1 == IF ~IsNone(start1) THEN start1 ELSE end1
             date2 == IF ~IsNone(start2) THEN start2 ELSE end2
         IN  IF ~IsNone(date1) /\ ~IsNone(date2)
                /\ ~(~IsNone(end1) /\ ~IsNone(end2))
             THEN Val(date1) = Val(date2)
             ELSE IF ~IsNone(start1) /\ ~IsNone(end1) /\ ~IsNone(start2)
                     /\ ~IsNone(end2)
                  THEN Val(start1) <= Val(end2) /\ Val(start2) <= Val(end1)
                  ELSE TRUE

\* data.get("provider", {}) is None: the following .get raises
ProviderIsNull(data) == IsNone(GetD(data, "provider", Some(EmptyDict)))
\* data.get("provider", {}).get("name", default)
ProviderName(data, default) ==
    GetD(Val(GetD(data, "provider", Some(EmptyDict))), "name", default)

\* data.get("line_items", []) is None: iterating it raises
ItemsAreNull(data) == IsNone(GetD(data, "line_items", Some(<<>>)))
LineItems(data) == Val(GetD(data, "line_items", Some(<<>>)))

BillingTolerance == 1

\* eob_allowed_by_cpt after the first n EOB line items
RECURSIVE AllowedByCpt(_, _)
AllowedByCpt(items, n) ==
    IF n = 0 THEN EmptyDict
    ELSE LET before == AllowedByCpt(items, n - 1)
             cpt == Get(items[n], "cpt_code")
             allowed == Get(items[n], "allowed_amount")
         IN  IF TruthyText(cpt) /\ ~IsNone(allowed)
             THEN (Val(cpt) :> Val(allowed)) @@ before
             ELSE before

OverAllowed(item, lookup) ==
    LET cpt == Get(item, "cpt_code")
        amount == Get(item, "amount")
    IN  IF TruthyText(cpt) /\ ~IsNone(amount) /\ Val(cpt) \in DOMAIN lookup
           /\ Val(amount) > lookup[Val(cpt)] + BillingTolerance
        THEN << ValidationResult("line_item_over_allowed", "MISMATCH", "MEDIUM",
                   Detail("", <<Val(amount), lookup[Val(cpt)]>>, <<>>,
                          <<cpt>>, FALSE),
                   Money(Val(amount) - lookup[Val(cpt)]),
                   Some("Request provider adjust CPT charge to insurance allowed amount")) >>
        ELSE <<>>

RECURSIVE OverAllowedAll(_, _)
OverAllowedAll(items, lookup) ==
    IF items = <<>> THEN <<>>
    ELSE OverAllowed(Head(items), lookup) \o OverAllowedAll(Tail(items), lookup)

\* [err, results]: the TypeError of iterating a null line_items, or the list
_compare_line_items(eob, bill) ==
    IF ItemsAreNull(eob.extracted_data) \/ ItemsAreNull(bill.extracted_data)
    THEN [err |-> "TypeError", results |-> <<>>]
    ELSE LET eob_items == LineItems(eob.extracted_data)
             bill_items == LineItems(bill.extracted_data)
         IN  [err |-> "none",
              results |->
                  OverAllowedAll(bill_items,
                                 AllowedByCpt(eob_items, Len(eob_items)))]

EobProvider(eob) ==
    _normalize_provider_name(ProviderName(eob.extracted_data, Some(<<>>)))
BillProvider(bill) ==
    _normalize_provider_name(ProviderName(bill.extracted_data, Some(<<>>)))

\* the test of lines 69-71, for documents whose provider block is not null
PairMatches(eob, bill) ==
    /\ _providers_match(EobProvider(eob), BillProvider(bill))
    /\ _dates_overlap(
           _parse_date(Get(eob.extracted_data, "date_of_service_start")),
           _parse_date(Get(eob.extracted_data, "date_of_service_end")),
           _parse_date(Get(bill.extracted_data, "date_of_service_start")),
           _parse_date(Get(bill.extracted_data, "date_of_service_end")))

\* the comparison of lines 76-96
EobVsBillAmount(eob, bill) ==
    LET eob_patient_resp == Get(eob.extracted_data, "total_patient_responsibility")
        bill_balance == Get(bill.extracted_data, "balance_due")
        bill_provider == BillProvider(bill)
    IN  IF ~IsNone(eob_patient_resp) /\ ~IsNone(bill_balance)
           /\ Abs(Val(eob_patient_resp) - Val(bill_balance)) > BillingTolerance
        THEN LET overcharge == Val(bill_balance) - Val(eob_patient_resp)
             IN  << ValidationResult("eob_vs_bill_amount", "MISMATCH", "HIGH",
                        Detail("", <<Val(bill_balance), Val(eob_patient_resp)>>,
                               <<IF bill_provider # <<>> THEN bill_provider
                                                         ELSE S_provider>>,
                               <<>>, FALSE),
                        IF overcharge > 0 THEN Money(overcharge) ELSE None,
                        IF overcharge > 0
                            THEN Some("Contact provider to request adjustment to match EOB amount")
                            ELSE Some("Verify with insurance if additional payment is expected")) >>
        ELSE <<>>

\* one pass of the inner loop body (lines 60-99) over the accumulator
\* [err, results, matched_eobs, matched_bills]
PairStep(acc, eob, bill) ==
    IF acc.err # "none" THEN acc
    ELSE IF ProviderIsNull(bill.extracted_data)
    THEN [acc EXCEPT !.err = "AttributeError"]
    ELSE IF PairMatches(eob, bill)
    THEN LET cmp == _compare_line_items(eob, bill)
         IN  IF cmp.err # "none" THEN [acc EXCEPT !.err = cmp.err]
             ELSE [acc EXCEPT
                      !.matched_eobs = @ \cup {eob.envelope.doc_id},
                      !.matched_bills = @ \cup {bill.envelope.doc_id},
                      !.results = @ \o EobVsBillAmount(eob, bill) \o cmp.results]
    ELSE acc

RECURSIVE BillLoop(_, _, _)
BillLoop(acc, eob, bills) ==
    IF bills = <<>> THEN acc
    ELSE BillLoop(PairStep(acc, eob, Head(bills)), eob, Tail(bills))

RECURSIVE EobLoop(_, _, _)
EobLoop(acc, eobs, bills) ==
    IF eobs = <<>> THEN acc
    ELSE LET eob == Head(eobs)
             next == IF acc.err # "none" THEN acc
                     ELSE IF ProviderIsNull(eob.extracted_data)
                     THEN [acc EXCEPT !.err = "AttributeError"]
                     ELSE BillLoop(acc, eob, bills)
         IN  EobLoop(next, Tail(eobs), bills)

\* lines 102-126: one loop of the unmatched flags
RECURSIVE Unmatched(_, _, _, _, _)
Unmatched(acc, docs, matched, name, severity) ==
    IF docs = <<>> \/ acc.err # "none" THEN acc
    ELSE LET doc == Head(docs)
             next ==
                 IF doc.envelope.doc_id \in matched THEN acc
                 ELSE IF ProviderIsNull(doc.extracted_data)
                 THEN [acc EXCEPT !.err = "AttributeError"]
                 ELSE [acc EXCEPT !.results = @ \o
                         << ValidationResult(name, "WARNING", severity,
                                Detail("", <<>>,
                                       <<ProviderName(doc.extracted_data,
                                                      Some(S_Unknown))>>,
                                       <<>>, FALSE),
                                None,
                                IF name = "unmatched_eob"
                                    THEN Some("Obtain corresponding bill from provider")
                                    ELSE Some("Request EOB from insurance for this service before paying")) >>]
         IN  Unmatched(next, Tail(docs), matched, name, severity)

IsEob(d) == d.envelope.classified_type = "EOB"
IsBill(d) == d.envelope.classified_type = "MEDICAL_BILL"

MissingTypes(eobs, bills) ==
    (IF eobs # <<>> /\ bills = <<>>
     THEN << ValidationResult("missing_bills", "WARNING", "LOW",
                Detail("", <<>>, <<>>, <<>>, FALSE), None,
                Some("Obtain bills from providers to verify amounts owed")) >>
     ELSE <<>>)
    \o
    (IF bills # <<>> /\ eobs = <<>>
     THEN << ValidationResult("missing_eobs", "WARNING", "MEDIUM",
                Detail("", <<>>, <<>>, <<>>, FALSE), None,
                Some("Request EOB from insurance before paying bills")) >>
     ELSE <<>>)

\* [err, results]: the exception the call propagates, or the list it returns
run_billing_reconciliation_checks(docs) ==
    LET eobs == SelectSeq(docs, IsEob)
        bills == SelectSeq(docs, IsBill)
        start == [err |-> "none", results |-> MissingTypes(eobs, bills),
                  matched_eobs |-> {}, matched_bills |-> {}]
        paired == EobLoop(start, eobs, bills)
        flagged1 == Unmatched(paired, eobs, paired.matched_eobs,
                              "unmatched_eob", "LOW")
        flagged2 == Unmatched(flagged1, bills, paired.matched_bills,
                              "unmatched_bill", "MEDIUM")
    IN  IF flagged2.err # "none"
        THEN [err |-> flagged2.err, results |-> <<>>]
        ELSE [err |-> "none", results |-> flagged2.results]

----------------------------------------------------------------------------
(* validators/duplicate_detection.py *)

\* data.get(block, {}) is None: the following .get("name") raises
BlockIsNull(data, block) == IsNone(GetD(data, block, Some(EmptyDict)))
\* data.get(block, {}).get("name")
BlockName(data, block) == Get(Val(GetD(data, block, Some(EmptyDict))), "name")

\* data.get(key, []) of a line collection
ListIsNull(data, key) == IsNone(GetD(data, key, Some(<<>>)))
ListOf(data, key) == Val(GetD(data, key, Some(<<>>)))

\* the normalized service line (description is never read afterwards)
ServiceLine(cpt, date, amount, source, doc_id, provider) ==
    [cpt_code |-> cpt, service_date |-> date, amount |-> amount,
     source |-> source, doc_id |-> doc_id, provider |-> provider]

\* the per-type field mapping: <<collection, code, date, amount>>
LineFields(doc_type) ==
    CASE doc_type = "EOB" -> <<"line_items", "cpt_code", "service_date", "billed_amount">>
      [] doc_type = "MEDICAL_BILL" -> <<"line_items", "cpt_code", "service_date", "amount">>
      [] doc_type = "CMS-1500" -> <<"service_lines", "cpt_code", "date_of_service_from", "charges">>
      [] doc_type = "UB-04" -> <<"revenue_lines", "hcpcs_code", "service_date", "total_charges">>
      [] doc_type = "LAB_REPORT" -> <<"test_results", "cpt_code", "collection_date", "">>
      [] doc_type = "DENTAL_CLAIM" -> <<"service_lines", "cdt_code", "service_date", "fee">>
      [] doc_type = "ITEMIZED_STATEMENT" -> <<"charges", "cpt_code", "service_date", "amount">>
      [] OTHER -> <<"", "", "", "">>

Or(a, b) == IF TruthyStr(a) THEN a ELSE b

\* [err, lines] of one document
LinesOfDocument(doc) ==
    LET doc_type == doc.envelope.classified_type
        data == doc.extracted_data
        doc_id == doc.envelope.doc_id
        f == LineFields(doc_type)
    IN  IF ProviderIsNull(data) THEN [err |-> "AttributeError", lines |-> <<>>]
        ELSE IF f[1] = "" THEN [err |-> "none", lines |-> <<>>]
        ELSE IF doc_type = "LAB_REPORT"
                /\ (BlockIsNull(data, "performing_lab")
                    \/ (~TruthyStr(BlockName(data, "performing_lab"))
                        /\ BlockIsNull(data, "ordering_provider")))
        THEN [err |-> "AttributeError", lines |-> <<>>]
        ELSE IF doc_type = "DENTAL_CLAIM" /\ BlockIsNull(data, "billing_provider")
        THEN [err |-> "AttributeError", lines |-> <<>>]
        ELSE IF ListIsNull(data, f[1]) THEN [err |-> "TypeError", lines |-> <<>>]
        ELSE LET name == BlockName(data, "provider")
                 provider ==
                     CASE doc_type = "UB-04" -> Or(name, Get(data, "facility_name"))
                       [] doc_type = "LAB_REPORT" ->
                              Or(BlockName(data, "performing_lab"),
                                 BlockName(data, "ordering_provider"))
                       [] doc_type = "DENTAL_CLAIM" ->
                              Or(BlockName(data, "billing_provider"), name)
                       [] OTHER -> name
                 items == ListOf(data, f[1])
             IN  [err |-> "none",
                  lines |->
                      [i \in 1..Len(items) |->
                          ServiceLine(
                              Get(items[i], f[2]),
                              _parse_date(IF doc_type = "LAB_REPORT"
                                              THEN Get(data, f[3])
                                              ELSE Get(items[i], f[3])),
                              IF doc_type = "LAB_REPORT" THEN None
                                                         ELSE Get(items[i], f[4]),
                              doc_type, doc_id, provider)]]

\* [err, lines] of the whole list
RECURSIVE _extract_all_service_lines(_)
_extract_all_service_lines(docs) ==
    IF docs = <<>> THEN [err |-> "none", lines |-> <<>>]
    ELSE LET first == LinesOfDocument(Head(docs))
             rest == _extract_all_service_lines(Tail(docs))
         IN  IF first.err # "none" THEN first
             ELSE IF rest.err # "none" THEN rest
             ELSE [err |-> "none", lines |-> first.lines \o rest.lines]

\* the distinct elements of a sequence, in order of first occurrence (the
\* key order of a dict filled in that order)
RECURSIVE Distinct(_)
Distinct(s) ==
    IF s = <<>> THEN <<>>
    ELSE LET front == Distinct(SubSeq(s, 1, Len(s) - 1))
             last == s[Len(s)]
         IN  IF \E i \in 1..Len(front) : front[i] = last THEN front
             ELSE Append(front, last)

HasCode(line) == TruthyText(line.cpt_code)
GroupKey(line) == <<Val(line.cpt_code), line.service_date>>
ProviderKey(occ) == IF TruthyStr(occ.provider) THEN Val(occ.provider) ELSE S_Unknown

RECURSIVE AmountTotal(_)
AmountTotal(occs) ==
    IF occs = <<>> THEN 0
    ELSE OrZero(Head(occs).amount) + AmountTotal(Tail(occs))

Half(total) == Some([num |-> total, den |-> 2])

\* a cross-provider duplicate reported as HIGH
CrossProviderAsHigh(key, occurrences, providers) ==
    IF Len(providers) > 1
       /\ Cardinality({occurrences[i].doc_id : i \in 1..Len(occurrences)}) > 1
    THEN << ValidationResult("duplicate_cpt_cross_provider", "WARNING", "HIGH",
                Detail("", <<>>, <<>>, <<Some(key[1])>>, FALSE), None, None) >>
    ELSE <<>>

CrossProvider(key, occurrences, providers) ==
    IF Len(providers) > 1
       /\ Cardinality({occurrences[i].doc_id : i \in 1..Len(occurrences)}) > 1
    THEN LET total_amount == AmountTotal(occurrences)
         IN  << ValidationResult("duplicate_cpt_cross_provider", "WARNING",
                    "MEDIUM",
                    Detail("",
                           <<total_amount,
                             IF Len(providers) > 3 THEN Len(providers) - 3 ELSE 0>>
                               \o key[2],
                           SubSeq([i \in 1..Len(providers) |-> Some(providers[i])],
                                  1, IF Len(providers) > 3 THEN 3 ELSE Len(providers)),
                           <<Some(key[1])>>, FALSE),
                    IF total_amount > 0 THEN Half(total_amount) ELSE None,
                    Some("Verify if CPT was legitimately performed by multiple providers or if this is duplicate billing")) >>
    ELSE <<>>

RECURSIVE SameProvider(_, _, _)
SameProvider(key, occurrences, providers) ==
    IF providers = <<>> THEN <<>>
    ELSE LET provider == Head(providers)
             provider_occs ==
                 SelectSeq(occurrences, LAMBDA o : ProviderKey(o) = provider)
         IN  (IF Len(provider_occs) >= 3
              THEN << ValidationResult("duplicate_cpt_same_provider", "INFO",
                         "LOW",
                         Detail("", <<Len(provider_occs)>> \o key[2],
                                <<Some(provider)>>, <<Some(key[1])>>, FALSE),
                         None,
                         Some("Verify units billed match services received")) >>
              ELSE <<>>)
             \o SameProvider(key, occurrences, Tail(providers))

GroupResults(key, coded) ==
    LET occurrences == SelectSeq(coded, LAMBDA l : GroupKey(l) = key)
        providers ==
            Distinct([i \in 1..Len(occurrences) |-> ProviderKey(occurrences[i])])
    IN  IF Len(occurrences) < 2 THEN <<>>
        ELSE CrossProvider(key, occurrences, providers)
                 \o SameProvider(key, occurrences, providers)

RECURSIVE AllGroups(_, _)
AllGroups(keys, coded) ==
    IF keys = <<>> THEN <<>>
    ELSE GroupResults(Head(keys), coded) \o AllGroups(Tail(keys), coded)

\* [err, results]
run_duplicate_detection(docs) ==
    LET extracted == _extract_all_service_lines(docs)
    IN  IF extracted.err # "none"
        THEN [err |-> extracted.err, results |-> <<>>]
        ELSE LET coded == SelectSeq(extracted.lines, HasCode)
                 keys == Distinct([i \in 1..Len(coded) |-> GroupKey(coded[i])])
             IN  [err |-> "none", results |-> AllGroups(keys, coded)]

----------------------------------------------------------------------------
(* validators/coverage_checks.py *)

S_denied == <<"d", "e", "n", "i", "e", "d">>
S_deny == <<"d", "e", "n", "y">>
S_upheld == <<"u", "p", "h", "e", "l", "d">>
S_overturned == <<"o", "v", "e", "r", "t", "u", "r", "n", "e", "d">>
S_approved == <<"a", "p", "p", "r", "o", "v", "e", "d">>
S_reversed == <<"r", "e", "v", "e", "r", "s", "e", "d">>
S_authorized == <<"a", "u", "t", "h", "o", "r", "i", "z", "e", "d">>

UrgentDays == 14
SoonDays == 30

\* the tiers with the day of the limit left out of "urgent"
UrgentBeforeLimit(deadline, now) ==
    IF IsNone(deadline) THEN "unknown"
    ELSE LET days_remaining == Val(deadline) - now
         IN  IF days_remaining < UrgentDays THEN "urgent"
             ELSE IF days_remaining <= SoonDays THEN "soon"
             ELSE "normal"

_get_appeal_urgency(deadline, now) ==
    IF IsNone(deadline) THEN "unknown"
    ELSE LET days_remaining == Val(deadline) - now
         IN  IF days_remaining <= UrgentDays THEN "urgent"
             ELSE IF days_remaining <= SoonDays THEN "soon"
             ELSE "normal"

\* (data.get(key) or "").lower()
LowerOf(data, key) ==
    IF TruthyStr(Get(data, key)) THEN Lower(Val(Get(data, key))) ELSE <<>>

\* potential_overcharge=amount for an optional amount
MoneyOf(amount) == IF IsNone(amount) THEN None ELSE Money(Val(amount))

Join(a, b) ==
    IF a.err # "none" THEN [err |-> a.err, results |-> <<>>]
    ELSE IF b.err # "none" THEN [err |-> b.err, results |-> <<>>]
    ELSE [err |-> "none", results |-> a.results \o b.results]

Ok(rs) == [err |-> "none", results |-> rs]
Raise(e) == [err |-> e, results |-> <<>>]

IsDenied(status) == StrIn(S_denied, status) \/ StrIn(S_deny, status)

ClaimDenied(data, now) ==
    IF IsDenied(LowerOf(data, "claim_status"))
    THEN IF ProviderIsNull(data) THEN Raise("AttributeError")
         ELSE LET appeal_deadline == _parse_date(Get(data, "appeal_deadline"))
                  urgency == _get_appeal_urgency(appeal_deadline, now)
                  total_billed == Get(data, "total_billed")
              IN  Ok(<< ValidationResult("claim_denied", "ERROR", "HIGH",
                          Detail("",
                                 (IF TruthyNum(total_billed)
                                      THEN <<Val(total_billed)>> ELSE <<>>)
                                     \o appeal_deadline,
                                 <<ProviderName(data, Some(S_provider))>>, <<>>,
                                 ~IsNone(appeal_deadline) /\ urgency = "urgent"),
                          MoneyOf(total_billed),
                          Some("File an appeal immediately with insurance. Contact provider about claim denial.")) >>)
    ELSE Ok(<<>>)

LineItemDenied(item) ==
    LET denial_reason == Get(item, "denial_reason")
        billed == Get(item, "billed_amount")
    IN  IF TruthyText(denial_reason)
        THEN << ValidationResult("line_item_denied", "ERROR", "HIGH",
                   Detail("", IF TruthyNum(billed) THEN <<Val(billed)>> ELSE <<>>,
                          <<>>,
                          <<GetD(item, "cpt_code", Some("Unknown")),
                            denial_reason>>,
                          FALSE),
                   MoneyOf(billed),
                   Some("Review denial reason. Consider appeal if service was medically necessary.")) >>
        ELSE <<>>

ZeroAllowed(item) ==
    LET allowed == Get(item, "allowed_amount")
        billed == Get(item, "billed_amount")
        ins_paid == Get(item, "insurance_paid")
    IN  IF /\ ~IsNone(allowed) /\ Val(allowed) = 0
           /\ (IsNone(ins_paid) \/ Val(ins_paid) = 0)
           /\ TruthyNum(billed) /\ Val(billed) > 0
        THEN << ValidationResult("zero_allowed_amount", "WARNING", "MEDIUM",
                   Detail("", <<Val(billed)>>, <<>>,
                          <<GetD(item, "cpt_code", Some("Unknown"))>>, FALSE),
                   MoneyOf(billed),
                   Some("Contact insurance to understand why the service was not covered. May need prior authorization or may not be a covered benefit.")) >>
        ELSE <<>>

\* the loop of check 2
RECURSIVE DeniedItems(_)
DeniedItems(items) ==
    IF items = <<>> THEN <<>>
    ELSE LineItemDenied(Head(items)) \o DeniedItems(Tail(items))

\* the loop of check 3
RECURSIVE ZeroAllowedItems(_)
ZeroAllowedItems(items) ==
    IF items = <<>> THEN <<>>
    ELSE ZeroAllowed(Head(items)) \o ZeroAllowedItems(Tail(items))

LineItemChecks(data) ==
    IF ItemsAreNull(data) THEN Raise("TypeError")
    ELSE Ok(DeniedItems(LineItems(data)) \o ZeroAllowedItems(LineItems(data)))

PatientFullCost(data) ==
    LET total_insurance_paid == Get(data, "total_insurance_paid")
        total_patient_resp == Get(data, "total_patient_responsibility")
        total_billed == Get(data, "total_billed")
    IN  IF /\ ~IsNone(total_insurance_paid) /\ Val(total_insurance_paid) = 0
           /\ TruthyNum(total_billed) /\ Val(total_billed) > 0
           /\ TruthyNum(total_patient_resp)
           /\ Abs(Val(total_patient_resp) - Val(total_billed)) < BillingTolerance
        THEN IF ProviderIsNull(data) THEN Raise("AttributeError")
             ELSE Ok(<< ValidationResult("patient_full_cost", "ERROR", "HIGH",
                          Detail("", <<Val(total_billed)>>,
                                 <<ProviderName(data, Some(S_provider))>>, <<>>,
                                 FALSE),
                          MoneyOf(total_billed),
                          Some("Verify claim was submitted correctly. Check if provider is out-of-network or if deductible applies.")) >>)
        ELSE Ok(<<>>)

_check_eob_coverage(doc, now) ==
    Join(Join(ClaimDenied(doc.extracted_data, now),
              LineItemChecks(doc.extracted_data)),
         PatientFullCost(doc.extracted_data))

_check_prior_auth(doc, now) ==
    LET data == doc.extracted_data
        auth_status == LowerOf(data, "auth_status")
        auth_number == GetD(data, "authorization_number", Some("Unknown"))
        appeal_deadline == _parse_date(Get(data, "appeal_deadline"))
        urgency == _get_appeal_urgency(appeal_deadline, now)
        expiration == _parse_date(Get(data, "expiration_date"))
    IN  Ok((IF IsDenied(auth_status)
            THEN << ValidationResult("prior_auth_denied", "ERROR", "HIGH",
                       Detail("", appeal_deadline, <<>>,
                              <<auth_number, GetD(data, "denial_reason", Some(""))>>,
                              ~IsNone(appeal_deadline) /\ urgency = "urgent"),
                       None,
                       IF TruthyText(Get(data, "appeal_instructions"))
                           THEN Get(data, "appeal_instructions")
                           ELSE Some("Review denial reason and consider filing an appeal before the deadline.")) >>
            ELSE <<>>)
           \o
           (IF ~IsNone(expiration) /\ Val(expiration) < now
               /\ ~StrIn(S_denied, auth_status)
            THEN << ValidationResult("prior_auth_expired", "WARNING", "MEDIUM",
                       Detail("", expiration, <<>>, <<auth_number>>, FALSE),
                       None,
                       Some("If services have not yet been rendered, request a new prior authorization.")) >>
            ELSE <<>>))

\* the recommendation of an upheld appeal, by which of its parts are present
UpheldRecommendation(data) ==
    LET next_level == TruthyText(Get(data, "next_appeal_level"))
        external == ~IsNone(Get(data, "external_review_available"))
                        /\ Val(Get(data, "external_review_available"))
        instructions == TruthyText(Get(data, "external_review_instructions"))
    IN  CASE next_level /\ external /\ instructions ->
                 Some("Consider filing a next-level appeal. External review is available. Instructions.")
          [] next_level /\ external /\ ~instructions ->
                 Some("Consider filing a next-level appeal. External review is available.")
          [] next_level /\ ~external ->
                 Some("Consider filing a next-level appeal.")
          [] ~next_level /\ external /\ instructions ->
                 Some("External review is available. Instructions.")
          [] ~next_level /\ external /\ ~instructions ->
                 Some("External review is available.")
          [] OTHER ->
                 Some("Review the decision rationale. Consult with provider about next steps.")

_check_appeal_decision(doc, now) ==
    LET data == doc.extracted_data
        decision == LowerOf(data, "decision")
        appeal_ref == GetD(data, "appeal_reference_number", Some("Unknown"))
        next_deadline == _parse_date(Get(data, "next_appeal_deadline"))
        billed == Get(data, "original_billed_amount")
        approved_amt == Get(data, "approved_amount")
        adjusted_resp == Get(data, "adjusted_patient_responsibility")
    IN  Ok((IF StrIn(S_upheld, decision) \/ StrIn(S_denied, decision)
            THEN << ValidationResult("appeal_upheld", "ERROR", "HIGH",
                       Detail("", next_deadline, <<>>,
                              <<appeal_ref, GetD(data, "decision_rationale", Some(""))>>,
                              ~IsNone(next_deadline)
                                  /\ _get_appeal_urgency(next_deadline, now) = "urgent"),
                       MoneyOf(billed),
                       UpheldRecommendation(data)) >>
            ELSE <<>>)
           \o
           (IF StrIn(S_overturned, decision) \/ StrIn(S_approved, decision)
               \/ StrIn(S_reversed, decision)
            THEN << ValidationResult("appeal_overturned", "INFO", "INFO",
                       Detail("", approved_amt \o adjusted_resp, <<>>,
                              <<appeal_ref>>, FALSE),
                       None,
                       Some("Verify that provider bills reflect the updated amounts from the appeal decision.")) >>
            ELSE <<>>))

IsPriorAuth(d) == d.envelope.classified_type = "PRIOR_AUTH"

\* approved_cpts: code -> authorization number, later entries overwriting
RECURSIVE ApprovedOfServices(_, _, _)
ApprovedOfServices(services, auth_num, approved) ==
    IF services = <<>> THEN approved
    ELSE LET cpt == Get(Head(services), "cpt_code")
         IN  ApprovedOfServices(
                 Tail(services), auth_num,
                 IF TruthyText(cpt) THEN (Val(cpt) :> auth_num) @@ approved
                                    ELSE approved)

\* [err, approved]
RECURSIVE ApprovedCpts(_, _)
ApprovedCpts(auths, approved) ==
    IF auths = <<>> THEN [err |-> "none", approved |-> approved]
    ELSE LET data == Head(auths).extracted_data
             auth_status == LowerOf(data, "auth_status")
         IN  IF StrIn(S_approved, auth_status) \/ StrIn(S_authorized, auth_status)
             THEN IF ListIsNull(data, "authorized_services")
                  THEN [err |-> "TypeError", approved |-> approved]
                  ELSE ApprovedCpts(
                           Tail(auths),
                           ApprovedOfServices(
                               ListOf(data, "authorized_services"),
                               GetD(data, "authorization_number", Some("Unknown")),
                               approved))
             ELSE ApprovedCpts(Tail(auths), approved)

AuthVsDenial(item, approved) ==
    LET cpt == Get(item, "cpt_code")
        denial_reason == Get(item, "denial_reason")
        billed == Get(item, "billed_amount")
    IN  IF TruthyText(cpt) /\ TruthyText(denial_reason)
           /\ Val(cpt) \in DOMAIN approved
        THEN << ValidationResult("prior_auth_vs_denial", "ERROR", "HIGH",
                   Detail("", IF TruthyNum(billed) THEN <<Val(billed)>> ELSE <<>>,
                          <<>>, <<cpt, approved[Val(cpt)], denial_reason>>, FALSE),
                   MoneyOf(billed),
                   Some("Contact insurance: this service was pre-authorized and should not have been denied.")) >>
        ELSE <<>>

\* the inner loop over one EOB's line items
RECURSIVE AuthVsDenialItems(_, _)
AuthVsDenialItems(items, approved) ==
    IF items = <<>> THEN <<>>
    ELSE AuthVsDenial(Head(items), approved)
             \o AuthVsDenialItems(Tail(items), approved)

RECURSIVE AuthVsDenialAll(_, _)
AuthVsDenialAll(eobs, approved) ==
    IF eobs = <<>> THEN Ok(<<>>)
    ELSE LET data == Head(eobs).extracted_data
         IN  IF ItemsAreNull(data) THEN Raise("TypeError")
             ELSE Join(Ok(AuthVsDenialItems(LineItems(data), approved)),
                       AuthVsDenialAll(Tail(eobs), approved))

_cross_check_prior_auth_vs_eob(docs) ==
    LET collected == ApprovedCpts(SelectSeq(docs, IsPriorAuth), EmptyDict)
    IN  IF collected.err # "none" THEN Raise(collected.err)
        ELSE IF DOMAIN collected.approved = {} THEN Ok(<<>>)
        ELSE AuthVsDenialAll(SelectSeq(docs, IsEob), collected.approved)

CoverageOfDocument(doc, now) ==
    LET doc_type == doc.envelope.classified_type
    IN  IF doc_type = "EOB" THEN _check_eob_coverage(doc, now)
        ELSE IF doc_type = "PRIOR_AUTH" THEN _check_prior_auth(doc, now)
        ELSE IF doc_type = "APPEAL_DECISION" THEN _check_appeal_decision(doc, now)
        ELSE Ok(<<>>)

RECURSIVE CoverageLoop(_, _)
CoverageLoop(docs, now) ==
    IF docs = <<>> THEN Ok(<<>>)
    ELSE Join(CoverageOfDocument(Head(docs), now), CoverageLoop(Tail(docs), now))

\* [err, results]
run_coverage_checks(docs, now) ==
    Join(CoverageLoop(docs, now), _cross_check_prior_auth_vs_eob(docs))

----------------------------------------------------------------------------
(* validators/__init__.py *)

severity_order(severity) ==
    CASE severity = "HIGH" -> 0
      [] severity = "MEDIUM" -> 1
      [] severity = "LOW" -> 2
      [] severity = "INFO" -> 3
      [] OTHER -> 4

\* a sort that is not stable: an element goes before those of equal key
InsertBeforeEqual(sorted, r) ==
    LET before == SelectSeq(sorted,
                      LAMBDA x : severity_order(x.severity) < severity_order(r.severity))
        after == SelectSeq(sorted,
                     LAMBDA x : severity_order(x.severity) >= severity_order(r.severity))
    IN  before \o <<r>> \o after

\* list.sort(key=...): a stable sort, here by insertion after equal keys
InsertByKey(sorted, r) ==
    LET before == SelectSeq(sorted,
                      LAMBDA x : severity_order(x.severity) <= severity_order(r.severity))
        after == SelectSeq(sorted,
                     LAMBDA x : severity_order(x.severity) > severity_order(r.severity))
    IN  before \o <<r>> \o after

\* the sort left out
Unsorted(rs) == rs

RECURSIVE SortBySeverity(_)
SortBySeverity(rs) ==
    IF rs = <<>> THEN <<>>
    ELSE InsertByKey(SortBySeverity(SubSeq(rs, 1, Len(rs) - 1)), rs[Len(rs)])

\* lines 33-36: the four extends, in order
Collect(docs, now) ==
    Join(Join(Join(Ok(run_math_checks(docs)),
                   run_billing_reconciliation_checks(docs)),
              run_duplicate_detection(docs)),
         run_coverage_checks(docs, now))

\* [err, results]
run_all_validations(docs, now) ==
    LET collected == Collect(docs, now)
    IN  IF collected.err # "none" THEN collected
        ELSE Ok(SortBySeverity(collected.results))

----------------------------------------------------------------------------
(* The calls a caller makes, and the clock *)

\* a checker that keeps its result list between calls and appends to it
ReturnedKeepingList(name, outcome) ==
    /\ op' = name
    /\ err' = outcome.err
    /\ results' = IF outcome.err = "none" THEN results \o outcome.results ELSE <<>>
    /\ UNCHANGED <<documents, today, classified_docs, actions>>

Returned(name, outcome) ==
    /\ op' = name
    /\ err' = outcome.err
    /\ results' = outcome.results
    /\ UNCHANGED <<documents, today, classified_docs, actions>>

CallMathChecks ==
    /\ Returned("run_math_checks", Ok(run_math_checks(documents)))
    /\ previous' = None

CallBillingReconciliation ==
    /\ Returned("run_billing_reconciliation_checks",
                run_billing_reconciliation_checks(documents))
    /\ previous' = None

CallDuplicateDetection ==
    /\ Returned("run_duplicate_detection", run_duplicate_detection(documents))
    /\ previous' = None

CallCoverageChecks ==
    /\ Returned("run_coverage_checks", run_coverage_checks(documents, today))
    /\ previous' = None

\* previous keeps the outcome of the call before when that call was
\* run_all_validations too
CallAllValidations ==
    /\ Returned("run_all_validations", run_all_validations(documents, today))
    /\ previous' = IF op = "run_all_validations"
                       THEN Some([err |-> err, results |-> results])
                       ELSE None

\* midnight passes: date.today() moves on
Tick ==
    /\ today < MaxDay
    /\ today' = today + 1
    /\ UNCHANGED <<documents, op, err, results, previous, classified_docs, actions>>

Next ==
    \/ CallMathChecks
    \/ CallBillingReconciliation
    \/ CallDuplicateDetection
    \/ CallCoverageChecks
    \/ CallAllValidations
    \/ Tick

NextMath == CallMathChecks

----------------------------------------------------------------------------
(* Inputs *)

\* a key that is absent, or present with one of the values
Field(k, values) == {EmptyDict} \cup {k :> v : v \in values}
Merge(A, B) == {a @@ b : a \in A, b \in B}
SeqsUpTo(S, n) == UNION {[1..k -> S] : k \in 0..n}

\* doc_id = f"{packet_id}-{i}": the position in the packet
DocIds == <<"d1", "d2", "d3", "d4">>
Packet(shapes) ==
    [i \in 1..Len(shapes) |->
        ProcessedDocument(DocIds[i], shapes[i].type, shapes[i].data)]
Shapes(type, datas) == {[type |-> type, data |-> d] : d \in datas}

N_HospitalA == <<"H", "o", "s", "p", "i", "t", "a", "l", " ", "A">>
N_hosp_a == <<"h", "o", "s", "p", " ", "a">>
N_ClinicB == <<"C", "l", "i", "n", "i", "c", " ", "B">>
N_Denied == <<"D", "e", "n", "i", "e", "d">>

Named(name) == "provider" :> Some("name" :> Some(name))

(* Documents of the arithmetic checks: every combination of the fields    *)
(* run_math_checks reads, each absent or stated, the totals also null.    *)
EobMathItems ==
    {EmptyDict, "billed_amount" :> Some(1),
     ("billed_amount" :> Some(2)) @@ ("insurance_paid" :> Some(1))}
BillMathItems == Field("amount", {Some(1), Some(2)})

ItemLists(items) ==
    Field("line_items", {None} \cup {Some(l) : l \in SeqsUpTo(items, MaxItems)})

EobMathData ==
    Merge(ItemLists(EobMathItems),
    Merge(Field("total_billed", {None, Some(0), Some(2), Some(3)}),
    Merge(Field("total_insurance_paid", {Some(0), Some(1)}),
    Merge(Field("total_patient_responsibility", {Some(0), Some(1), Some(3)}),
    Merge(Field("total_deductible", {Some(-1), Some(0), Some(2)}),
    Merge(Field("total_copay", {Some(1)}),
          Field("total_coinsurance", {Some(1)})))))))

BillMathData ==
    Merge(ItemLists(BillMathItems),
    Merge(Field("total_charges", {None, Some(0), Some(2), Some(3)}),
    Merge(Field("balance_due", {Some(0), Some(1), Some(3)}),
    Merge(Field("insurance_adjustments", {Some(-1), Some(1)}),
    Merge(Field("insurance_payments", {Some(1)}),
          Field("patient_payments", {Some(1)}))))))

MathShapes == Shapes("EOB", EobMathData) \cup Shapes("MEDICAL_BILL", BillMathData)

(* Documents of a packet: EOBs and bills of matching and of different     *)
(* providers, with the provider block and the line items stated or null,  *)
(* a denied claim whose appeal deadline is near the urgency threshold,    *)
(* and a lab report.                                                      *)
PacketEobItem ==
    ("cpt_code" :> Some("99213")) @@ ("billed_amount" :> Some(2))
        @@ ("allowed_amount" :> Some(1)) @@ ("denial_reason" :> Some("not covered"))

PacketEobTotals ==
    ("total_billed" :> Some(5)) @@ ("total_patient_responsibility" :> Some(2))

PacketEobData ==
    Merge({PacketEobTotals},
          Merge({Named(N_HospitalA)},
          Merge({EmptyDict,
                 ("claim_status" :> Some(N_Denied))
                     @@ ("appeal_deadline" :> IsoDate(15))},
                {"line_items" :> None, "line_items" :> Some(<<PacketEobItem>>)}))
          \cup {("provider" :> None) @@ ("line_items" :> Some(<<PacketEobItem>>))})

PacketBillItem == ("cpt_code" :> Some("99213")) @@ ("amount" :> Some(3))

PacketBillData ==
    Merge({("line_items" :> Some(<<PacketBillItem>>)) @@ ("total_charges" :> Some(3))},
          Merge({Named(N_hosp_a), Named(N_ClinicB)},
                {"balance_due" :> Some(2), "balance_due" :> Some(5)})
          \cup {("provider" :> None) @@ ("balance_due" :> Some(5))})

PacketLabData ==
    {("performing_lab" :> Some("name" :> Some(N_ClinicB)))
        @@ ("test_results" :> Some(<<"cpt_code" :> Some("99213")>>))}

PacketShapes ==
    Shapes("EOB", PacketEobData) \cup Shapes("MEDICAL_BILL", PacketBillData)
        \cup Shapes("LAB_REPORT", PacketLabData)

NoCall ==
    /\ today = 0
    /\ op = "none"
    /\ err = "none"
    /\ results = <<>>
    /\ previous = None
    /\ actions = <<>>

Idle == NoCall /\ classified_docs = <<>>

Init ==
    /\ documents \in {Packet(shapes) : shapes \in SeqsUpTo(PacketShapes, MaxDocs)}
    /\ Idle

InitMath ==
    /\ documents \in {Packet(<<shape>>) : shape \in MathShapes}
    /\ Idle

Spec == Init /\ [][Next]_vars

SpecMath == InitMath /\ [][NextMath]_vars

----------------------------------------------------------------------------
(* Properties *)

Rank(severity) ==
    CASE severity = "HIGH" -> 0
      [] severity = "MEDIUM" -> 1
      [] severity = "LOW" -> 2
      [] severity = "INFO" -> 3

ReturnedBy(name) == op = name /\ err = "none"

OfSeverity(rs, s) == SelectSeq(rs, LAMBDA r : r.severity = s)
Severities(rs) == {rs[i].severity : i \in 1..Len(rs)}
CheckNames(rs) == {rs[i].check_name : i \in 1..Len(rs)}

\* C1: the list run_all_validations returns is ordered by severity: every
\* adjacent pair has rank(result[i]) <= rank(result[i+1]), with
\* rank HIGH = 0 < MEDIUM = 1 < LOW = 2 < INFO = 3.
C1_SortedBySeverity ==
    ReturnedBy("run_all_validations") =>
        \A i \in 1..(Len(results) - 1) :
            Rank(results[i].severity) <= Rank(results[i + 1].severity)

\* a returned list of three severities that the checkers did not find in order
C1_Witness ==
    /\ ReturnedBy("run_all_validations")
    /\ Cardinality(Severities(results)) >= 3
    /\ results # Collect(documents, today).results

\* C2: the sort is stable: results of equal severity keep their discovery
\* order, math checks before billing reconciliation before duplicate
\* detection before coverage checks, each in its checker's emission order.
C2_StableDiscoveryOrder ==
    [][(op' = "run_all_validations" /\ err' = "none" /\ today' = today) =>
        \A s \in ValidationSeverity :
            OfSeverity(results', s) =
                OfSeverity(run_math_checks(documents), s)
                    \o OfSeverity(run_billing_reconciliation_checks(documents).results, s)
                    \o OfSeverity(run_duplicate_detection(documents).results, s)
                    \o OfSeverity(run_coverage_checks(documents, today).results, s)]_vars

\* a returned list in which one severity holds different results of three
\* checkers, and which the sort had to reorder
C2_Witness ==
    /\ ReturnedBy("run_all_validations")
    /\ results # Collect(documents, today).results
    /\ \E s \in ValidationSeverity :
          /\ OfSeverity(run_math_checks(documents), s) # <<>>
          /\ OfSeverity(run_billing_reconciliation_checks(documents).results, s) # <<>>
          /\ OfSeverity(run_duplicate_detection(documents).results, s) # <<>>
          /\ Cardinality(CheckNames(OfSeverity(results, s))) >= 3

\* C3: running run_all_validations twice on an identical document list
\* yields identical result lists: same results, same field values, same
\* order.  (Violated: the urgency suffix of a denied claim's detail depends
\* on date.today().)
C3_Idempotent ==
    (op = "run_all_validations" /\ previous # None) =>
        previous = Some([err |-> err, results |-> results])

\* C4: no checker raises for any combination of present, absent or null
\* fields; every call returns a result list.  (Violated: a null provider
\* block or a null line-item list raises.)
C4_NoCheckerRaises == op # "none" => err = "none"

----------------------------------------------------------------------------
(* The arithmetic checks, restated from the fields of a document *)

Stated(data, k) == ~IsNone(Get(data, k))
Amount(data, k) == IF Stated(data, k) THEN Val(Get(data, k)) ELSE 0
ItemsOfKey(data, k) == IF Stated(data, k) THEN Val(Get(data, k)) ELSE <<>>
ItemsOf(data) == ItemsOfKey(data, "line_items")

RECURSIVE Total(_, _)
Total(items, k) ==
    IF items = <<>> THEN 0 ELSE Amount(Head(items), k) + Total(Tail(items), k)

\* more than one cent apart
Differ(a, b) == a - b > 1 \/ b - a > 1

ResultsOf(doc) ==
    SelectSeq(results, LAMBDA r : r.detail.doc = doc.envelope.doc_id)
ResultsNamed(rs, name) == SelectSeq(rs, LAMBDA r : r.check_name = name)
DocumentsOf(type) ==
    {documents[i] : i \in {j \in 1..Len(documents) :
                              documents[j].envelope.classified_type = type}}

Breakdown(data) ==
    Amount(data, "total_deductible") + Amount(data, "total_copay")
        + Amount(data, "total_coinsurance")
BalanceFromZero(data) ==
    Amount(data, "total_charges") - Amount(data, "insurance_adjustments")
        - Amount(data, "insurance_payments") - Amount(data, "patient_payments")

EobConsistent(data) ==
    /\ (Stated(data, "total_billed") /\ ItemsOf(data) # <<>>) =>
           ~Differ(Total(ItemsOf(data), "billed_amount"), Amount(data, "total_billed"))
    /\ (Stated(data, "total_insurance_paid") /\ ItemsOf(data) # <<>>) =>
           ~Differ(Total(ItemsOf(data), "insurance_paid"),
                   Amount(data, "total_insurance_paid"))
    /\ Stated(data, "total_patient_responsibility") =>
           ~Differ(Breakdown(data), Amount(data, "total_patient_responsibility"))

BillConsistent(data) ==
    /\ (Stated(data, "total_charges") /\ ItemsOf(data) # <<>>) =>
           ~Differ(Total(ItemsOf(data), "amount"), Amount(data, "total_charges"))
    /\ Stated(data, "balance_due") =>
           ~Differ(BalanceFromZero(data), Amount(data, "balance_due"))

\* C5: for every EOB or MEDICAL_BILL document whose math fields are
\* consistent within the tolerance (line-item sums against the stated
\* totals, the breakdown against the stated patient responsibility, the
\* balance-due arithmetic), run_math_checks emits no result for it.
C5_ConsistentIsSilent ==
    op = "run_math_checks" =>
        /\ \A doc \in DocumentsOf("EOB") :
               EobConsistent(doc.extracted_data) => ResultsOf(doc) = <<>>
        /\ \A doc \in DocumentsOf("MEDICAL_BILL") :
               BillConsistent(doc.extracted_data) => ResultsOf(doc) = <<>>

\* a checked EOB whose three comparisons all apply, the billed sum exactly
\* one cent from the stated total
C5_Witness ==
    /\ op = "run_math_checks"
    /\ \E doc \in DocumentsOf("EOB") :
          LET data == doc.extracted_data
          IN  /\ EobConsistent(data)
              /\ Stated(data, "total_billed") /\ ItemsOf(data) # <<>>
              /\ Stated(data, "total_insurance_paid")
              /\ Stated(data, "total_patient_responsibility")
              /\ Breakdown(data) > 0
              /\ Amount(data, "total_billed") - Total(ItemsOf(data), "billed_amount") = 1
              /\ ResultsOf(doc) = <<>>

\* C6: for each EOB, run_math_checks emits exactly one eob_billed_sum
\* result, MISMATCH/MEDIUM with potential_overcharge |sum - total_billed|,
\* iff total_billed is stated, the line-item list is non-empty and the sum
\* of billed_amount (a missing amount counting as 0) differs from
\* total_billed by more than the tolerance; otherwise none.
C6_EobBilledSum ==
    op = "run_math_checks" =>
        \A doc \in DocumentsOf("EOB") :
            LET data == doc.extracted_data
                rs == ResultsNamed(ResultsOf(doc), "eob_billed_sum")
                sum == Total(ItemsOf(data), "billed_amount")
                total == Amount(data, "total_billed")
            IN  IF Stated(data, "total_billed") /\ ItemsOf(data) # <<>>
                   /\ Differ(sum, total)
                THEN /\ Len(rs) = 1
                     /\ rs[1].status = "MISMATCH"
                     /\ rs[1].severity = "MEDIUM"
                     /\ rs[1].potential_overcharge =
                            Money(IF sum > total THEN sum - total ELSE total - sum)
                ELSE rs = <<>>

\* an eob_billed_sum result for a list whose sum is below the stated total
\* and in which a line has no billed_amount
C6_Witness ==
    /\ op = "run_math_checks"
    /\ \E doc \in DocumentsOf("EOB") :
          LET data == doc.extracted_data
          IN  /\ ResultsNamed(ResultsOf(doc), "eob_billed_sum") # <<>>
              /\ Total(ItemsOf(data), "billed_amount") < Amount(data, "total_billed")
              /\ \E i \in 1..Len(ItemsOf(data)) :
                    ~Stated(ItemsOf(data)[i], "billed_amount")

\* C7: for each MEDICAL_BILL with total_charges stated and a non-empty
\* line-item list, run_math_checks emits exactly one bill_line_item_sum
\* result, of severity HIGH, iff the sum of the line amounts differs from
\* total_charges by more than the tolerance; its potential_overcharge is
\* total_charges - sum when total_charges > sum and absent otherwise.
C7_BillLineItemSum ==
    op = "run_math_checks" =>
        \A doc \in DocumentsOf("MEDICAL_BILL") :
            LET data == doc.extracted_data
                rs == ResultsNamed(ResultsOf(doc), "bill_line_item_sum")
                sum == Total(ItemsOf(data), "amount")
                total == Amount(data, "total_charges")
            IN  (Stated(data, "total_charges") /\ ItemsOf(data) # <<>>) =>
                    IF Differ(sum, total)
                    THEN /\ Len(rs) = 1
                         /\ rs[1].severity = "HIGH"
                         /\ rs[1].potential_overcharge =
                                IF total > sum THEN Money(total - sum) ELSE None
                    ELSE rs = <<>>

\* a bill_line_item_sum result for lines that add up to more than the
\* stated total: the result carries no overcharge
C7_Witness ==
    /\ op = "run_math_checks"
    /\ \E doc \in DocumentsOf("MEDICAL_BILL") :
          LET data == doc.extracted_data
              rs == ResultsNamed(ResultsOf(doc), "bill_line_item_sum")
          IN  /\ Stated(data, "total_charges")
              /\ Total(ItemsOf(data), "amount") > Amount(data, "total_charges") + 1
              /\ Len(rs) = 1
              /\ rs[1].potential_overcharge = None

\* what C8 and its amendment say of one bill whose balance is compared
BalanceDueResult(doc, compared) ==
    LET data == doc.extracted_data
        rs == ResultsNamed(ResultsOf(doc), "bill_balance_due_math")
        expected == BalanceFromZero(data)
        balance_due == Amount(data, "balance_due")
    IN  IF compared /\ Differ(expected, balance_due)
        THEN /\ Len(rs) = 1
             /\ rs[1].status = "MISMATCH"
             /\ rs[1].severity = "MEDIUM"
             /\ rs[1].potential_overcharge =
                    IF balance_due > expected
                        THEN Money(balance_due - expected) ELSE None
        ELSE rs = <<>>

\* C8 as stated: for each MEDICAL_BILL with a stated balance_due, expected =
\* total_charges - insurance_adjustments - insurance_payments -
\* patient_payments with each missing term, total_charges included, as 0,
\* and exactly one MISMATCH/MEDIUM bill_balance_due_math result iff
\* |expected - balance_due| exceeds the tolerance, with potential_overcharge
\* balance_due - expected when positive and absent otherwise.
C8_AsStated ==
    op = "run_math_checks" =>
        \A doc \in DocumentsOf("MEDICAL_BILL") :
            Stated(doc.extracted_data, "balance_due") =>
                BalanceDueResult(doc, TRUE)

\* C8 amended: the comparison is made only when balance_due and
\* total_charges are both stated (the three other terms count as 0 when
\* missing); a bill that lacks either gets no bill_balance_due_math result.
C8_BillBalanceDue ==
    op = "run_math_checks" =>
        \A doc \in DocumentsOf("MEDICAL_BILL") :
            BalanceDueResult(doc,
                Stated(doc.extracted_data, "balance_due")
                    /\ Stated(doc.extracted_data, "total_charges"))

\* a bill_balance_due_math result with an overcharge, for a bill that
\* states patient_payments and lacks insurance_adjustments
C8_Witness ==
    /\ op = "run_math_checks"
    /\ \E doc \in DocumentsOf("MEDICAL_BILL") :
          LET data == doc.extracted_data
              rs == ResultsNamed(ResultsOf(doc), "bill_balance_due_math")
          IN  /\ Len(rs) = 1
              /\ rs[1].potential_overcharge # None
              /\ Stated(data, "patient_payments")
              /\ ~Stated(data, "insurance_adjustments")

\* what C9 and its amendment say of one EOB whose breakdown is compared
BreakdownResult(doc, compared) ==
    LET data == doc.extracted_data
        rs == ResultsNamed(ResultsOf(doc), "eob_patient_responsibility_breakdown")
        total == Amount(data, "total_patient_responsibility")
    IN  IF compared /\ Differ(Breakdown(data), total)
        THEN /\ Len(rs) = 1
             /\ rs[1].status = "MISMATCH"
             /\ rs[1].severity = "MEDIUM"
             /\ rs[1].potential_overcharge =
                    IF Breakdown(data) < total
                        THEN Money(total - Breakdown(data)) ELSE None
        ELSE rs = <<>>

\* C9 as stated: for each EOB with total_patient_responsibility stated,
\* exactly one MISMATCH/MEDIUM eob_patient_responsibility_breakdown result
\* iff deductible + copay + coinsurance (missing terms as 0) is nonzero and
\* differs from the total by more than the tolerance; potential_overcharge
\* is |breakdown - total| only when breakdown < total.
C9_AsStated ==
    op = "run_math_checks" =>
        \A doc \in DocumentsOf("EOB") :
            Stated(doc.extracted_data, "total_patient_responsibility") =>
                BreakdownResult(doc, Breakdown(doc.extracted_data) # 0)

\* C9 amended: the comparison is made only when the breakdown is positive;
\* a zero or negative breakdown gets no result.
C9_PatientResponsibility ==
    op = "run_math_checks" =>
        \A doc \in DocumentsOf("EOB") :
            Stated(doc.extracted_data, "total_patient_responsibility") =>
                BreakdownResult(doc, Breakdown(doc.extracted_data) > 0)

\* a breakdown result with an overcharge, a term of the breakdown missing
C9_Witness ==
    /\ op = "run_math_checks"
    /\ \E doc \in DocumentsOf("EOB") :
          LET data == doc.extracted_data
              rs == ResultsNamed(ResultsOf(doc), "eob_patient_responsibility_breakdown")
          IN  /\ Len(rs) = 1
              /\ rs[1].potential_overcharge # None
              /\ ~Stated(data, "total_copay")
              /\ Breakdown(data) > 0

----------------------------------------------------------------------------
(* Billing reconciliation, restated from the fields of a packet *)

Positions(type) ==
    {i \in 1..Len(documents) : documents[i].envelope.classified_type = type}

\* a matched pair: both provider blocks can be read, the providers match
\* and the dates of service overlap; both amounts are stated
AmountPairs ==
    {p \in Positions("EOB") \X Positions("MEDICAL_BILL") :
        LET eob == documents[p[1]]
            bill == documents[p[2]]
        IN  /\ ~ProviderIsNull(eob.extracted_data)
            /\ ~ProviderIsNull(bill.extracted_data)
            /\ PairMatches(eob, bill)
            /\ Stated(eob.extracted_data, "total_patient_responsibility")
            /\ Stated(bill.extracted_data, "balance_due")}

Responsibility(p) == Amount(documents[p[1]].extracted_data, "total_patient_responsibility")
Balance(p) == Amount(documents[p[2]].extracted_data, "balance_due")
DifferingPairs == {p \in AmountPairs : Differ(Responsibility(p), Balance(p))}
PairOvercharge(p) ==
    IF Balance(p) > Responsibility(p)
        THEN Money(Balance(p) - Responsibility(p)) ELSE None

\* C10: for every matched (EOB, bill) pair with total_patient_responsibility
\* and balance_due both stated, run_billing_reconciliation_checks emits
\* exactly one HIGH/MISMATCH eob_vs_bill_amount result iff the two differ by
\* more than the tolerance, with potential_overcharge balance_due -
\* total_patient_responsibility when positive and absent otherwise: the
\* eob_vs_bill_amount results are, overcharge by overcharge, as many as the
\* differing matched pairs.  (Violated: a matched pair one of whose
\* line-item lists is null makes the call raise, see C4.)
C10_EobVsBillAmount ==
    op = "run_billing_reconciliation_checks" =>
        LET rs == ResultsNamed(results, "eob_vs_bill_amount")
        IN  /\ \A i \in 1..Len(rs) :
                   rs[i].status = "MISMATCH" /\ rs[i].severity = "HIGH"
            /\ Len(rs) = Cardinality(DifferingPairs)
            /\ \A p \in DifferingPairs :
                   Cardinality({i \in 1..Len(rs) :
                                   rs[i].potential_overcharge = PairOvercharge(p)})
                       = Cardinality({q \in DifferingPairs :
                                         PairOvercharge(q) = PairOvercharge(p)})

----------------------------------------------------------------------------
(* Packets of the billing reconciliation: EOBs and bills of two providers, *)
(* with line items inside and outside the EOB's allowed amounts, and with  *)
(* a provider block or a line-item list that is null.                      *)

AllowedItem(cpt, allowed) ==
    ("cpt_code" :> Some(cpt)) @@ ("allowed_amount" :> Some(allowed))
ChargedItem(cpt, amount) ==
    ("cpt_code" :> Some(cpt)) @@ ("amount" :> Some(amount))

BillingEobData ==
    { Named(N_HospitalA) @@ ("total_patient_responsibility" :> Some(2))
          @@ ("line_items" :> Some(<<AllowedItem("99213", 1)>>)),
      Named(N_ClinicB) @@ ("total_patient_responsibility" :> Some(2))
          @@ ("line_items" :> Some(<<AllowedItem("99213", 1),
                                     "cpt_code" :> Some("80053")>>)),
      ("provider" :> None) @@ ("total_patient_responsibility" :> Some(2)),
      Named(N_HospitalA) @@ ("line_items" :> None) }

BillingBillData ==
    { Named(N_hosp_a) @@ ("balance_due" :> Some(5))
          @@ ("line_items" :> Some(<<ChargedItem("99213", 3),
                                     ChargedItem("99213", 2),
                                     ChargedItem("80053", 3),
                                     "cpt_code" :> Some("99213")>>)),
      Named(N_ClinicB) @@ ("balance_due" :> Some(2))
          @@ ("line_items" :> Some(<<ChargedItem("99213", 1)>>)),
      ("provider" :> None) @@ ("balance_due" :> Some(5)),
      Named(N_hosp_a) @@ ("balance_due" :> Some(2)) }

BillingShapes ==
    Shapes("EOB", BillingEobData) \cup Shapes("MEDICAL_BILL", BillingBillData)

InitBilling ==
    /\ documents \in {Packet(shapes) :
                         shapes \in SeqsUpTo(BillingShapes, MaxBillingDocs)}
    /\ Idle

SpecBilling == InitBilling /\ [][CallBillingReconciliation]_vars

(* An EOB and a bill of one provider, each date of service absent, a      *)
(* string that is no ISO date, or a date.                                 *)
DateValues == {Malformed} \cup {IsoDate(d) : d \in 0..MaxDate}

DatedData ==
    Merge(Field("date_of_service_start", DateValues),
          Field("date_of_service_end", DateValues))

InitDates ==
    /\ documents \in
           {Packet(<<[type |-> "EOB", data |-> Named(N_HospitalA) @@ d1],
                     [type |-> "MEDICAL_BILL", data |-> Named(N_hosp_a) @@ d2]>>) :
                d1 \in DatedData, d2 \in DatedData}
    /\ Idle

SpecDates == InitDates /\ [][CallBillingReconciliation]_vars

----------------------------------------------------------------------------
(* Matching and its reports, restated from the fields of a packet *)

\* the pairs the reconciliation treats as matched: both provider blocks can
\* be read, the names match and the dates of service overlap
MatchedPairs ==
    {p \in Positions("EOB") \X Positions("MEDICAL_BILL") :
        /\ ~ProviderIsNull(documents[p[1]].extracted_data)
        /\ ~ProviderIsNull(documents[p[2]].extracted_data)
        /\ PairMatches(documents[p[1]], documents[p[2]])}

UnmatchedEobs == {e \in Positions("EOB") : \A p \in MatchedPairs : p[1] # e}
UnmatchedBills == {b \in Positions("MEDICAL_BILL") : \A p \in MatchedPairs : p[2] # b}

AllAre(rs, status, severity) ==
    \A i \in 1..Len(rs) : rs[i].status = status /\ rs[i].severity = severity

\* C11: unmatched documents are reported, never dropped: the unmatched_eob
\* results (LOW/WARNING) are as many as the EOBs that matched no bill, the
\* unmatched_bill results (MEDIUM/WARNING) as many as the bills that matched
\* no EOB.  (Violated: a null provider block makes the call raise, see C4.)
C11_UnmatchedReported ==
    op = "run_billing_reconciliation_checks" =>
        LET eobs == ResultsNamed(results, "unmatched_eob")
            bills == ResultsNamed(results, "unmatched_bill")
        IN  /\ AllAre(eobs, "WARNING", "LOW")
            /\ AllAre(bills, "WARNING", "MEDIUM")
            /\ Len(eobs) = Cardinality(UnmatchedEobs)
            /\ Len(bills) = Cardinality(UnmatchedBills)

\* C11 on the calls that return a list
C11_OnReturn == err = "none" => C11_UnmatchedReported

\* C12: a document matches at most one counterpart: each EOB is compared
\* with at most one bill and each bill with at most one EOB, so a run has at
\* most as many eob_vs_bill_amount results as it has EOBs, and as it has
\* bills.  (Violated: the inner loop goes on after a match.)
C12_AtMostOneCounterpart ==
    op = "run_billing_reconciliation_checks" =>
        /\ Len(ResultsNamed(results, "eob_vs_bill_amount"))
               <= Cardinality(Positions("EOB"))
        /\ Len(ResultsNamed(results, "eob_vs_bill_amount"))
               <= Cardinality(Positions("MEDICAL_BILL"))

\* what the code does instead: every matched pair is compared
C12_EveryPairOnReturn ==
    (op = "run_billing_reconciliation_checks" /\ err = "none") =>
        Len(ResultsNamed(results, "eob_vs_bill_amount"))
            = Cardinality(DifferingPairs)

\* C14: exactly one LOW/WARNING missing_bills result iff the packet has an
\* EOB and no MEDICAL_BILL, exactly one MEDIUM/WARNING missing_eobs result
\* iff it has a MEDICAL_BILL and no EOB, whatever the number of documents;
\* never both.  (Violated: a null provider block makes the call raise, see
\* C4.)
C14_MissingTypes ==
    op = "run_billing_reconciliation_checks" =>
        LET no_bills == ResultsNamed(results, "missing_bills")
            no_eobs == ResultsNamed(results, "missing_eobs")
        IN  /\ AllAre(no_bills, "WARNING", "LOW")
            /\ AllAre(no_eobs, "WARNING", "MEDIUM")
            /\ Len(no_bills) =
                   IF Positions("EOB") # {} /\ Positions("MEDICAL_BILL") = {}
                       THEN 1 ELSE 0
            /\ Len(no_eobs) =
                   IF Positions("MEDICAL_BILL") # {} /\ Positions("EOB") = {}
                       THEN 1 ELSE 0
            /\ ~(no_bills # <<>> /\ no_eobs # <<>>)

\* C14 on the calls that return a list
C14_OnReturn == err = "none" => C14_MissingTypes

\* the dates of service a document states, as the days they parse to
StartOf(doc) == _parse_date(Get(doc.extracted_data, "date_of_service_start"))
EndOf(doc) == _parse_date(Get(doc.extracted_data, "date_of_service_end"))

NoDate(doc) == IsNone(StartOf(doc)) /\ IsNone(EndOf(doc))
SingleDate(doc) == IsNone(StartOf(doc)) # IsNone(EndOf(doc))
CompleteRange(doc) == ~IsNone(StartOf(doc)) /\ ~IsNone(EndOf(doc))
Representative(doc) ==
    IF ~IsNone(StartOf(doc)) THEN Val(StartOf(doc)) ELSE Val(EndOf(doc))

\* the four-case rule of the date-of-service criterion
FourCaseRule(d1, d2) ==
    IF NoDate(d1) /\ NoDate(d2) THEN TRUE
    ELSE IF SingleDate(d1) /\ SingleDate(d2)
         THEN Representative(d1) = Representative(d2)
    ELSE IF CompleteRange(d1) /\ CompleteRange(d2)
         THEN /\ Val(StartOf(d1)) <= Val(EndOf(d2))
              /\ Val(StartOf(d2)) <= Val(EndOf(d1))
    ELSE TRUE

NamesMatch(eob, bill) ==
    /\ ~ProviderIsNull(eob.extracted_data)
    /\ ~ProviderIsNull(bill.extracted_data)
    /\ _providers_match(EobProvider(eob), BillProvider(bill))

\* C13: the date criterion of EOB-to-bill matching follows the four-case
\* rule: an EOB is left unmatched exactly when no bill of a matching
\* provider satisfies the rule with it, for every combination of present
\* and absent start and end dates.  (Violated: two lone end dates are not
\* compared, and a complete range is compared with a lone start date by
\* equality of the starts.)
C13_FourCaseRule ==
    (op = "run_billing_reconciliation_checks" /\ err = "none") =>
        Len(ResultsNamed(results, "unmatched_eob")) =
            Cardinality({e \in Positions("EOB") :
                \A b \in Positions("MEDICAL_BILL") :
                    ~(/\ NamesMatch(documents[e], documents[b])
                      /\ FourCaseRule(documents[e], documents[b]))})

\* the combinations on which the code and the four-case rule agree: all but
\* two lone end dates, and a complete range against a lone start date
RuleApplies(d1, d2) ==
    /\ ~(IsNone(StartOf(d1)) /\ IsNone(StartOf(d2))
         /\ ~IsNone(EndOf(d1)) /\ ~IsNone(EndOf(d2)))
    /\ ~(CompleteRange(d1) /\ SingleDate(d2) /\ ~IsNone(StartOf(d2)))
    /\ ~(CompleteRange(d2) /\ SingleDate(d1) /\ ~IsNone(StartOf(d1)))

C13_ElsewhereOnReturn ==
    (op = "run_billing_reconciliation_checks" /\ err = "none") =>
        \A p \in Positions("EOB") \X Positions("MEDICAL_BILL") :
            (/\ NamesMatch(documents[p[1]], documents[p[2]])
             /\ RuleApplies(documents[p[1]], documents[p[2]]))
            => (p \in MatchedPairs
                    <=> FourCaseRule(documents[p[1]], documents[p[2]]))

\* the EOB line items that enter the per-code lookup of allowed amounts
AllowedEntries(eob, code) ==
    {i \in 1..Len(ItemsOf(eob.extracted_data)) :
        /\ Get(ItemsOf(eob.extracted_data)[i], "cpt_code") = Some(code)
        /\ Stated(ItemsOf(eob.extracted_data)[i], "allowed_amount")}

\* the allowed amount the lookup holds for a code: that of its last entry
AllowedAmount(eob, code) ==
    LET last == CHOOSE i \in AllowedEntries(eob, code) :
                    \A j \in AllowedEntries(eob, code) : j <= i
    IN  Amount(ItemsOf(eob.extracted_data)[last], "allowed_amount")

\* <<e, b, i>>: line item i of bill b, matched with EOB e, has a code of
\* the lookup and an amount more than one cent above the allowed amount
OverAllowedCases ==
    {t \in UNION {{<<p, i>> :
                      i \in 1..Len(ItemsOf(documents[p[2]].extracted_data))} :
                  p \in MatchedPairs} :
        LET eob == documents[t[1][1]]
            items == ItemsOf(documents[t[1][2]].extracted_data)
        IN  /\ Stated(items[t[2]], "cpt_code")
            /\ Val(Get(items[t[2]], "cpt_code")) # ""
            /\ Stated(items[t[2]], "amount")
            /\ AllowedEntries(eob, Val(Get(items[t[2]], "cpt_code"))) # {}
            /\ Amount(items[t[2]], "amount")
                   > AllowedAmount(eob, Val(Get(items[t[2]], "cpt_code"))) + 1}

CaseOvercharge(t) ==
    LET item == ItemsOf(documents[t[1][2]].extracted_data)[t[2]]
    IN  Money(Amount(item, "amount")
                  - AllowedAmount(documents[t[1][1]], Val(Get(item, "cpt_code"))))

\* C15: for every matched (EOB, bill) pair there is one MEDIUM/MISMATCH
\* line_item_over_allowed result, with potential_overcharge billed -
\* allowed, for exactly the bill line items whose code is in the lookup of
\* the EOB's allowed amounts and whose amount exceeds the allowed amount by
\* more than 0.01, and none for any other line item: the results are,
\* overcharge by overcharge, as many as those line items.  (Violated: a
\* null provider block or line-item list makes the call raise, see C4.)
C15_LineItemOverAllowed ==
    op = "run_billing_reconciliation_checks" =>
        LET rs == ResultsNamed(results, "line_item_over_allowed")
        IN  /\ AllAre(rs, "MISMATCH", "MEDIUM")
            /\ Len(rs) = Cardinality(OverAllowedCases)
            /\ \A t \in OverAllowedCases :
                   Cardinality({i \in 1..Len(rs) :
                                   rs[i].potential_overcharge = CaseOvercharge(t)})
                       = Cardinality({u \in OverAllowedCases :
                                         CaseOvercharge(u) = CaseOvercharge(t)})

\* C15 on the calls that return a list
C15_OnReturn == err = "none" => C15_LineItemOverAllowed

\* a returned run with a flagged line item next to line items that are not
C15_Reached ==
    /\ op = "run_billing_reconciliation_checks" /\ err = "none"
    /\ OverAllowedCases # {}
    /\ \E p \in MatchedPairs :
           Len(ItemsOf(documents[p[2]].extracted_data))
               > Cardinality({t \in OverAllowedCases : t[1] = p})

----------------------------------------------------------------------------
(* Packets of the duplicate detection: service lines of one code on one    *)
(* date or another or on none, from two providers or from none, once,      *)
(* twice or three times in a document, with and without an amount.         *)

EobLine(cpt, day, billed) ==
    ("cpt_code" :> Some(cpt)) @@ ("service_date" :> IsoDate(day))
        @@ ("billed_amount" :> Some(billed))
BillLine(cpt, amount) == ("cpt_code" :> Some(cpt)) @@ ("amount" :> Some(amount))

DuplicateEobData ==
    { Named(N_HospitalA) @@ ("line_items" :> Some(<<EobLine("99213", 0, 3)>>)),
      Named(N_ClinicB) @@ ("line_items" :> Some(<<EobLine("99213", 0, 2)>>)),
      Named(N_ClinicB) @@ ("line_items" :> Some(<<EobLine("99213", 1, 2)>>)),
      ("provider" :> None)
          @@ ("line_items" :> Some(<<EobLine("99213", 0, 2)>>)) }

DuplicateBillData ==
    { Named(N_HospitalA)
          @@ ("line_items" :> Some(<<BillLine("80053", 1), BillLine("80053", 1),
                                     BillLine("80053", 1)>>)),
      Named(N_HospitalA)
          @@ ("line_items" :> Some(<<BillLine("80053", 1), BillLine("80053", 2),
                                     "amount" :> Some(5)>>)),
      Named(N_ClinicB) @@ ("line_items" :> Some(<<"cpt_code" :> Some("36415")>>)),
      "line_items" :> Some(<<"cpt_code" :> Some("36415"),
                             "cpt_code" :> Some("")>>) }

DuplicateShapes ==
    Shapes("EOB", DuplicateEobData) \cup Shapes("MEDICAL_BILL", DuplicateBillData)

InitDuplicates ==
    /\ documents \in {Packet(shapes) :
                         shapes \in SeqsUpTo(DuplicateShapes, MaxBillingDocs)}
    /\ Idle

SpecDuplicates == InitDuplicates /\ [][CallDuplicateDetection]_vars

----------------------------------------------------------------------------
(* Duplicate detection, restated from the fields of a packet *)

\* <<d, i>>: line i of the line collection of document d
PacketLines ==
    UNION {{<<d, i>> :
               i \in 1..Len(LET f == LineFields(documents[d].envelope.classified_type)
                                data == documents[d].extracted_data
                            IN  IF f[1] # "" /\ Stated(data, f[1])
                                    THEN Val(Get(data, f[1])) ELSE <<>>)} :
           d \in 1..Len(documents)}

LineItem(l) ==
    Val(Get(documents[l[1]].extracted_data,
            LineFields(documents[l[1]].envelope.classified_type)[1]))[l[2]]
LineCode(l) ==
    Get(LineItem(l), LineFields(documents[l[1]].envelope.classified_type)[2])
LineDate(l) ==
    _parse_date(Get(LineItem(l),
                    LineFields(documents[l[1]].envelope.classified_type)[3]))
LineAmount(l) ==
    Amount(LineItem(l), LineFields(documents[l[1]].envelope.classified_type)[4])

\* the provider name of the line's document, "Unknown" when it states none
LineProvider(l) ==
    LET data == documents[l[1]].extracted_data
    IN  IF Stated(data, "provider") /\ Stated(Val(Get(data, "provider")), "name")
           /\ Val(Get(Val(Get(data, "provider")), "name")) # <<>>
        THEN Val(Get(Val(Get(data, "provider")), "name"))
        ELSE S_Unknown

\* the groups: a code and a service date (<<>> is the unknown date)
CodedLines == {l \in PacketLines : Stated(LineItem(l), "cpt_code")
                                      /\ LineCode(l) # Some("")}
Groups == {<<Val(LineCode(l)), LineDate(l)>> : l \in CodedLines}
LinesOfGroup(g) ==
    {l \in CodedLines : Val(LineCode(l)) = g[1] /\ LineDate(l) = g[2]}

RECURSIVE SummedAmount(_)
SummedAmount(lines) ==
    IF lines = {} THEN 0
    ELSE LET l == CHOOSE x \in lines : TRUE
         IN  LineAmount(l) + SummedAmount(lines \ {l})

CrossProviderGroups ==
    {g \in Groups :
        /\ Cardinality({LineProvider(l) : l \in LinesOfGroup(g)}) >= 2
        /\ Cardinality({l[1] : l \in LinesOfGroup(g)}) >= 2}

\* the results about group g; the detail names the code and, after its
\* leading numbers, the date
OfGroup(rs, g, leading) ==
    SelectSeq(rs, LAMBDA r :
        /\ r.detail.codes = <<Some(g[1])>>
        /\ SubSeq(r.detail.nums, leading + 1, Len(r.detail.nums)) = g[2])

CrossProviderResults == ResultsNamed(results, "duplicate_cpt_cross_provider")

\* C16: exactly one MEDIUM/WARNING duplicate_cpt_cross_provider result for
\* each group of lines of one code and one service date (lines without a
\* code excluded, lines without a date grouped per code) that come from at
\* least 2 provider names and at least 2 documents, none for any other
\* group, with potential_overcharge half the summed amount of the group's
\* lines; two same-code lines on different dates give none.  (Violated: a
\* null provider block makes the call raise, see C4; and a group whose
\* summed amount is zero has no potential_overcharge.)
C16_CrossProvider ==
    op = "run_duplicate_detection" =>
        /\ AllAre(CrossProviderResults, "WARNING", "MEDIUM")
        /\ Len(CrossProviderResults) = Cardinality(CrossProviderGroups)
        /\ \A g \in CrossProviderGroups :
               /\ Len(OfGroup(CrossProviderResults, g, 2)) = 1
               /\ OfGroup(CrossProviderResults, g, 2)[1].potential_overcharge
                      = Some([num |-> SummedAmount(LinesOfGroup(g)), den |-> 2])

\* what holds on the calls that return a list: as C16, the overcharge being
\* absent when the summed amount is zero
C16_OnReturn ==
    (op = "run_duplicate_detection" /\ err = "none") =>
        /\ AllAre(CrossProviderResults, "WARNING", "MEDIUM")
        /\ Len(CrossProviderResults) = Cardinality(CrossProviderGroups)
        /\ \A g \in CrossProviderGroups :
               /\ Len(OfGroup(CrossProviderResults, g, 2)) = 1
               /\ OfGroup(CrossProviderResults, g, 2)[1].potential_overcharge
                      = (IF SummedAmount(LinesOfGroup(g)) > 0
                         THEN Some([num |-> SummedAmount(LinesOfGroup(g)),
                                    den |-> 2])
                         ELSE None)

\* a returned run where a group is flagged and another, of the same code on
\* another date, is not
C16_Reached ==
    /\ op = "run_duplicate_detection" /\ err = "none"
    /\ \E g \in CrossProviderGroups :
           \E h \in Groups \ CrossProviderGroups : h[1] = g[1] /\ h[2] # g[2]

SameProviderResults == ResultsNamed(results, "duplicate_cpt_same_provider")

\* <<g, p>>: provider p has at least 3 lines in group g
SameProviderCases ==
    {c \in Groups \X {LineProvider(l) : l \in CodedLines} :
        Cardinality({l \in LinesOfGroup(c[1]) : LineProvider(l) = c[2]}) >= 3}

\* C17: independently of the cross-provider check, exactly one LOW/INFO
\* duplicate_cpt_same_provider result without potential_overcharge for each
\* (code, service date, provider) with at least 3 occurrences, and none for
\* a provider with fewer.  (Violated: a null provider block makes the call
\* raise, see C4.)
C17_SameProvider ==
    op = "run_duplicate_detection" =>
        /\ AllAre(SameProviderResults, "INFO", "LOW")
        /\ \A i \in 1..Len(SameProviderResults) :
               SameProviderResults[i].potential_overcharge = None
        /\ Len(SameProviderResults) = Cardinality(SameProviderCases)
        /\ \A c \in SameProviderCases :
               Len(SelectSeq(OfGroup(SameProviderResults, c[1], 1),
                             LAMBDA r : r.detail.names = <<Some(c[2])>>)) = 1

\* C17 on the calls that return a list
C17_OnReturn == err = "none" => C17_SameProvider

\* a returned run with a provider of three occurrences, alone and next to
\* a cross-provider group, and one of two occurrences
C17_Reached ==
    /\ op = "run_duplicate_detection" /\ err = "none"
    /\ SameProviderCases # {}
    /\ \E g \in Groups :
           \E l \in LinesOfGroup(g) :
               Cardinality({k \in LinesOfGroup(g) :
                               LineProvider(k) = LineProvider(l)}) = 2

----------------------------------------------------------------------------
(* Packets of the claim-status check: EOBs whose claim_status is missing,  *)
(* a denial in either spelling and case, or another status with or without *)
(* the letters "den", with and without total_billed and a provider block.  *)

N_DENY == <<"D", "E", "N", "Y">>
N_Denial == <<"D", "e", "n", "i", "a", "l">>
N_Pending == <<"P", "e", "n", "d", "i", "n", "g">>
N_Paid == <<"P", "a", "i", "d">>

StatusEobData ==
    Merge({Named(N_HospitalA), "provider" :> None},
          Merge(Field("claim_status",
                      {Some(N_Denied), Some(N_DENY), Some(N_Denial),
                       Some(N_Pending), Some(N_Paid)}),
                Field("total_billed", {Some(5), Some(0)})))

InitStatus ==
    /\ documents \in {Packet(shapes) :
                         shapes \in SeqsUpTo(Shapes("EOB", StatusEobData), MaxDocs)}
    /\ Idle

SpecStatus == InitStatus /\ [][CallCoverageChecks]_vars

----------------------------------------------------------------------------
(* The claim-status check, restated from the fields of a packet *)

S_den == <<"d", "e", "n">>

StatusOf(doc) ==
    IF Stated(doc.extracted_data, "claim_status")
        THEN Lower(Val(Get(doc.extracted_data, "claim_status"))) ELSE <<>>

ClaimDeniedResults == ResultsNamed(results, "claim_denied")

\* the claim_denied results are HIGH/ERROR and are, overcharge by
\* overcharge, as many as the EOBs of the set: the overcharge of an EOB is
\* its total_billed when stated
FlagsExactly(eobs) ==
    /\ AllAre(ClaimDeniedResults, "ERROR", "HIGH")
    /\ Len(ClaimDeniedResults) = Cardinality(eobs)
    /\ \A e \in eobs :
           Cardinality({i \in 1..Len(ClaimDeniedResults) :
                           ClaimDeniedResults[i].potential_overcharge
                               = MoneyOf(Get(documents[e].extracted_data,
                                             "total_billed"))})
               = Cardinality({f \in eobs :
                                 Get(documents[f].extracted_data, "total_billed")
                                     = Get(documents[e].extracted_data,
                                           "total_billed")})

\* C18: exactly one HIGH/ERROR claim_denied result, with potential_overcharge
\* total_billed when present, for each EOB whose claim_status contains "den"
\* in any case, and none for an EOB whose claim_status does not.
\* (Violated: the code looks for "denied" and "deny", so "Denial" and
\* "Pending" are not flagged; and a null provider block makes the call
\* raise, see C4.)
C18_ClaimDenied ==
    op = "run_coverage_checks" =>
        FlagsExactly({e \in Positions("EOB") :
                         StrIn(S_den, StatusOf(documents[e]))})

\* what holds on the calls that return a list: the EOBs flagged are those
\* whose claim_status contains "denied" or "deny" in any case
C18_OnReturn ==
    (op = "run_coverage_checks" /\ err = "none") =>
        FlagsExactly({e \in Positions("EOB") :
                         \/ StrIn(S_denied, StatusOf(documents[e]))
                         \/ StrIn(S_deny, StatusOf(documents[e]))})

\* a returned run with a flagged EOB and one whose status has the letters
\* "den" and is not flagged
C18_Reached ==
    /\ op = "run_coverage_checks" /\ err = "none"
    /\ ClaimDeniedResults # <<>>
    /\ \E e \in Positions("EOB") :
           /\ StrIn(S_den, StatusOf(documents[e]))
           /\ ~StrIn(S_deny, StatusOf(documents[e]))
           /\ ~StrIn(S_denied, StatusOf(documents[e]))

----------------------------------------------------------------------------
(* process_file.py, extract_documents: from classified files to documents  *)

\* the keys of SCHEMA_REGISTRY, and the label of an unclassified file
SCHEMA_REGISTRY ==
    {"EOB", "CMS-1500", "UB-04", "MEDICAL_BILL", "PHARMACY_RECEIPT",
     "LAB_REPORT", "DENTAL_CLAIM", "PRIOR_AUTH", "APPEAL_DECISION",
     "ITEMIZED_STATEMENT"}
TypeLabels == SCHEMA_REGISTRY \cup {"UNKNOWN"}

\* the keys of config_map
config_map ==
    {"EOB", "CMS-1500", "UB-04", "MEDICAL_BILL", "PHARMACY_RECEIPT",
     "LAB_REPORT"}

\* the member of DocumentType whose value is the label, UNKNOWN without one
doc_type_enum(label) == IF label \in DocumentType THEN label ELSE "UNKNOWN"

\* one turn of the loop: a file without a configuration becomes an UNKNOWN
\* document without data, any other keeps its extracted data
ExtractedDocument(doc, i) ==
    IF doc.doc_type \notin config_map
    THEN ProcessedDocument(DocIds[i], "UNKNOWN", EmptyDict)
    ELSE ProcessedDocument(DocIds[i], doc_type_enum(doc.doc_type), doc.data)

extracted_docs(classified) ==
    [i \in 1..Len(classified) |-> ExtractedDocument(classified[i], i)]

ExtractDocuments ==
    /\ documents' = extracted_docs(classified_docs)
    /\ op' = "extract_documents"
    /\ err' = "none"
    /\ results' = <<>>
    /\ previous' = None
    /\ UNCHANGED <<today, classified_docs, actions>>

\* tests/test_validators.py, _make_doc: DocumentType(doc_type) raises
\* ValueError for a label that is not a value of the enumeration
MakeDoc ==
    \E label \in TypeLabels :
        /\ Len(documents) < MaxDocs
        /\ op' = "_make_doc"
        /\ IF label \in DocumentType
           THEN /\ documents' = Append(documents,
                                       ProcessedDocument(
                                           DocIds[Len(documents) + 1], label,
                                           EmptyDict))
                /\ err' = "none"
           ELSE /\ documents' = documents
                /\ err' = "ValueError"
        /\ results' = <<>>
        /\ previous' = None
        /\ UNCHANGED <<today, classified_docs, actions>>

\* process_file.py, validate_documents: run_all_validations on
\* state.extracted_docs; the list is stored in state.validation_results and
\* ValidationCompleteEvent is returned, or the exception ends the step
ValidateDocuments ==
    /\ op' = "validate_documents"
    /\ LET validation_results == run_all_validations(documents, today)
       IN  /\ err' = validation_results.err
           /\ results' = validation_results.results
    /\ previous' = None
    /\ actions' = <<>>
    /\ UNCHANGED <<documents, today, classified_docs>>

\* f"URGENT: {result.recommendation}", f"INVESTIGATE: {result.recommendation}"
Action(prefix, recommendation) ==
    [prefix |-> prefix, recommendation |-> Val(recommendation)]

\* an action list with an entry for every result that has a recommendation
RECURSIVE ActionsOfAnySeverity(_)
ActionsOfAnySeverity(validation_results) ==
    IF validation_results = <<>> THEN <<>>
    ELSE LET result == Head(validation_results)
         IN  (IF result.severity = "HIGH" /\ TruthyText(result.recommendation)
              THEN <<Action("URGENT", result.recommendation)>>
              ELSE IF TruthyText(result.recommendation)
              THEN <<Action("INVESTIGATE", result.recommendation)>>
              ELSE <<>>)
             \o ActionsOfAnySeverity(Tail(validation_results))

RECURSIVE _build_action_list(_)
_build_action_list(validation_results) ==
    IF validation_results = <<>> THEN <<>>
    ELSE LET result == Head(validation_results)
         IN  (IF result.severity = "HIGH" /\ TruthyText(result.recommendation)
              THEN <<Action("URGENT", result.recommendation)>>
              ELSE IF result.severity = "MEDIUM" /\ TruthyText(result.recommendation)
              THEN <<Action("INVESTIGATE", result.recommendation)>>
              ELSE <<>>)
             \o _build_action_list(Tail(validation_results))

\* process_file.py, summarize: runs on ValidationCompleteEvent and builds
\* the action list from state.validation_results
Summarize ==
    /\ op = "validate_documents"
    /\ err = "none"
    /\ op' = "summarize"
    /\ actions' = _build_action_list(results)
    /\ UNCHANGED <<documents, today, err, results, previous, classified_docs>>

----------------------------------------------------------------------------
(* Packets of classified files: prior authorizations, approved and not,    *)
(* EOBs with denied and undenied line items of the authorized code and of  *)
(* another, and a file of every other label.                               *)

N_Approved == <<"A", "p", "p", "r", "o", "v", "e", "d">>
N_Upheld == <<"U", "p", "h", "e", "l", "d">>
N_Overturned == <<"O", "v", "e", "r", "t", "u", "r", "n", "e", "d">>

AuthData(status) ==
    ("auth_status" :> Some(status))
        @@ ("authorized_services" :> Some(<<"cpt_code" :> Some("27447")>>))
DeniedLine(cpt) ==
    ("cpt_code" :> Some(cpt)) @@ ("denial_reason" :> Some("Not authorized"))

ClassifiedFiles ==
    {[doc_type |-> "PRIOR_AUTH", data |-> AuthData(N_Approved)],
     [doc_type |-> "PRIOR_AUTH", data |-> AuthData(N_Denied)],
     [doc_type |-> "EOB",
      data |-> Named(N_HospitalA)
                   @@ ("line_items" :> Some(<<DeniedLine("27447"),
                                              DeniedLine("99213"),
                                              "cpt_code" :> Some("27447")>>))],
     [doc_type |-> "EOB",
      data |-> Named(N_HospitalA)
                   @@ ("line_items" :> Some(<<"cpt_code" :> Some("27447")>>))]}
        \cup {[doc_type |-> "PRIOR_AUTH",
              data |-> AuthData(N_Approved)
                           @@ ("expiration_date" :> IsoDate(0 - 1))],
             [doc_type |-> "PRIOR_AUTH",
              data |-> AuthData(N_DENY)
                           @@ ("expiration_date" :> IsoDate(0 - 1))],
             [doc_type |-> "APPEAL_DECISION",
              data |-> ("decision" :> Some(N_Upheld))
                           @@ ("original_billed_amount" :> Some(5))],
             [doc_type |-> "APPEAL_DECISION",
              data |-> "decision" :> Some(N_Overturned)]}
        \cup {[doc_type |-> label, data |-> EmptyDict] :
                 label \in TypeLabels \ {"EOB", "PRIOR_AUTH"}}

InitWorkflow ==
    /\ classified_docs \in SeqsUpTo(ClassifiedFiles, MaxDocs)
    /\ documents = <<>>
    /\ NoCall

NextWorkflow ==
    \/ ExtractDocuments
    \/ CallCoverageChecks
    \/ CallDuplicateDetection

SpecWorkflow == InitWorkflow /\ [][NextWorkflow]_vars

InitTypes == documents = <<>> /\ Idle

NextTypes ==
    \/ MakeDoc
    \/ CallCoverageChecks
    \/ CallDuplicateDetection

SpecTypes == InitTypes /\ [][NextTypes]_vars

----------------------------------------------------------------------------
(* Prior authorizations against denials, restated from the classified files *)

FilesLabelled(label) ==
    {i \in 1..Len(classified_docs) : classified_docs[i].doc_type = label}

\* the codes of the authorized services of the prior authorizations whose
\* status is approved or authorized
AuthorizedCodes ==
    {Val(Get(svc, "cpt_code")) :
        svc \in UNION {{ItemsOfKey(classified_docs[i].data,
                                   "authorized_services")[j] :
                           j \in 1..Len(ItemsOfKey(classified_docs[i].data,
                                                   "authorized_services"))} :
                       i \in {a \in FilesLabelled("PRIOR_AUTH") :
                                 LET status == LowerOf(classified_docs[a].data,
                                                       "auth_status")
                                 IN  \/ StrIn(S_approved, status)
                                     \/ StrIn(S_authorized, status)}}}

\* <<i, j>>: line item j of EOB i carries a denial_reason and an authorized
\* code
DeniedThoughAuthorized ==
    {l \in UNION {{<<i, j>> :
                      j \in 1..Len(ItemsOf(classified_docs[i].data))} :
                  i \in FilesLabelled("EOB")} :
        LET item == ItemsOf(classified_docs[l[1]].data)[l[2]]
        IN  /\ Stated(item, "denial_reason")
            /\ Stated(item, "cpt_code")
            /\ Val(Get(item, "cpt_code")) \in AuthorizedCodes}

\* C19: run_coverage_checks emits exactly one HIGH/ERROR prior_auth_vs_denial
\* result for each EOB line item that carries a denial_reason and whose code
\* is in the authorized services of an approved PRIOR_AUTH document, and
\* none for any other line item: on the documents extracted from a packet
\* the results are as many as those line items.  (Violated: no document of
\* type PRIOR_AUTH comes out of the extraction, see C20.)
C19_PriorAuthVsDenial ==
    (op = "run_coverage_checks" /\ documents = extracted_docs(classified_docs)) =>
        /\ AllAre(ResultsNamed(results, "prior_auth_vs_denial"), "ERROR", "HIGH")
        /\ Len(ResultsNamed(results, "prior_auth_vs_denial"))
               = Cardinality(DeniedThoughAuthorized)

\* what the code does instead: no run on extracted documents has a
\* prior_auth_vs_denial result, whatever the packet holds
C19_NeverEmitted ==
    op = "run_coverage_checks" =>
        ResultsNamed(results, "prior_auth_vs_denial") = <<>>

\* C20: the classified type of a document is one of eleven values (the ten
\* keys of the schema registry and UNKNOWN), so that a ProcessedDocument of
\* each of them can be constructed: no construction fails.  (Violated:
\* DocumentType has seven values; PRIOR_AUTH, APPEAL_DECISION, DENTAL_CLAIM
\* and ITEMIZED_STATEMENT raise ValueError.)
C20_ElevenTypes == op = "_make_doc" => err = "none"

\* what the code does instead: the types of the documents that reach the
\* checkers are among the seven values of DocumentType
C20_SevenTypes ==
    \A i \in 1..Len(documents) :
        documents[i].envelope.classified_type \in DocumentType

----------------------------------------------------------------------------
(* Prior authorizations and appeal decisions, restated from the classified *)
(* files                                                                   *)

FileStatus(i, key) == LowerOf(classified_docs[i].data, key)

\* the prior authorizations whose status indicates denial
DeniedAuthorizations ==
    {i \in FilesLabelled("PRIOR_AUTH") : StrIn(S_den, FileStatus(i, "auth_status"))}

\* those that are not denied and whose expiration_date is in the past
ExpiredAuthorizations ==
    {i \in FilesLabelled("PRIOR_AUTH") \ DeniedAuthorizations :
        LET expiration == _parse_date(Get(classified_docs[i].data,
                                          "expiration_date"))
        IN  ~IsNone(expiration) /\ Val(expiration) < today}

OnExtracted ==
    op = "run_coverage_checks" /\ documents = extracted_docs(classified_docs)

\* C21: for each PRIOR_AUTH document run_coverage_checks emits a HIGH/ERROR
\* prior_auth_denied result when its status indicates denial, and a
\* MEDIUM/WARNING prior_auth_expired result iff expiration_date is in the
\* past and the status is not denied, never both for one document: on the
\* documents extracted from a packet the results of either name are as
\* many as those prior authorizations.  (Violated: no document of type
\* PRIOR_AUTH comes out of the extraction, see C20.)
C21_PriorAuth ==
    OnExtracted =>
        /\ AllAre(ResultsNamed(results, "prior_auth_denied"), "ERROR", "HIGH")
        /\ Len(ResultsNamed(results, "prior_auth_denied"))
               = Cardinality(DeniedAuthorizations)
        /\ AllAre(ResultsNamed(results, "prior_auth_expired"), "WARNING", "MEDIUM")
        /\ Len(ResultsNamed(results, "prior_auth_expired"))
               = Cardinality(ExpiredAuthorizations)

\* what the code does instead: no run has a result about a prior
\* authorization
C21_NeverEmitted ==
    op = "run_coverage_checks" =>
        /\ ResultsNamed(results, "prior_auth_denied") = <<>>
        /\ ResultsNamed(results, "prior_auth_expired") = <<>>

UpheldAppeals ==
    {i \in FilesLabelled("APPEAL_DECISION") :
        \/ StrIn(S_upheld, FileStatus(i, "decision"))
        \/ StrIn(S_denied, FileStatus(i, "decision"))}
OverturnedAppeals ==
    {i \in FilesLabelled("APPEAL_DECISION") :
        \/ StrIn(S_overturned, FileStatus(i, "decision"))
        \/ StrIn(S_approved, FileStatus(i, "decision"))
        \/ StrIn(S_reversed, FileStatus(i, "decision"))}

\* C22: for each APPEAL_DECISION document run_coverage_checks emits exactly
\* one HIGH/ERROR appeal_upheld result, with potential_overcharge
\* original_billed_amount, when the decision contains "upheld" or "denied",
\* exactly one INFO/INFO appeal_overturned result when it contains
\* "overturned", "approved" or "reversed", and none otherwise: on the
\* documents extracted from a packet the results of either name are as
\* many as those appeal decisions.  (Violated: no document of type
\* APPEAL_DECISION comes out of the extraction, see C20.)
C22_AppealDecision ==
    OnExtracted =>
        LET upheld == ResultsNamed(results, "appeal_upheld")
        IN  /\ AllAre(upheld, "ERROR", "HIGH")
            /\ Len(upheld) = Cardinality(UpheldAppeals)
            /\ \A i \in UpheldAppeals :
                   \E r \in 1..Len(upheld) :
                       upheld[r].potential_overcharge
                           = MoneyOf(Get(classified_docs[i].data,
                                         "original_billed_amount"))
            /\ AllAre(ResultsNamed(results, "appeal_overturned"), "INFO", "INFO")
            /\ Len(ResultsNamed(results, "appeal_overturned"))
                   = Cardinality(OverturnedAppeals)

\* what the code does instead: no run has a result about an appeal
C22_NeverEmitted ==
    op = "run_coverage_checks" =>
        /\ ResultsNamed(results, "appeal_upheld") = <<>>
        /\ ResultsNamed(results, "appeal_overturned") = <<>>

----------------------------------------------------------------------------
(* Packets of the full-cost check: EOBs whose insurance payment is absent, *)
(* zero or positive and whose patient responsibility is absent, equal to   *)
(* the billed total, one cent below it or further away.                    *)

FullCostEobData ==
    Merge({Named(N_HospitalA), "provider" :> None},
          Merge(Field("total_insurance_paid", {Some(0), Some(3)}),
                Merge(Field("total_billed", {Some(5), Some(0)}),
                      Field("total_patient_responsibility",
                            {Some(5), Some(4), Some(3)}))))

InitFullCost ==
    /\ documents \in {Packet(shapes) :
                         shapes \in SeqsUpTo(Shapes("EOB", FullCostEobData),
                                             MaxDocs)}
    /\ Idle

SpecFullCost == InitFullCost /\ [][CallCoverageChecks]_vars

\* insurance paid is stated and zero, the billed total is positive
PaidNothing(data) ==
    /\ Stated(data, "total_insurance_paid")
    /\ Amount(data, "total_insurance_paid") = 0
    /\ Stated(data, "total_billed")
    /\ Amount(data, "total_billed") > 0
    /\ Stated(data, "total_patient_responsibility")

FullCostResults == ResultsNamed(results, "patient_full_cost")

\* C23: exactly one HIGH/ERROR patient_full_cost result for each EOB whose
\* total_insurance_paid is present and 0, whose total_billed is positive
\* and whose total_patient_responsibility is within the 0.01 tolerance of
\* total_billed, and none for any other EOB, in particular none when
\* total_insurance_paid is absent.  (Violated: a null provider block makes
\* the call raise, see C4; and a responsibility exactly 0.01 away from the
\* billed total is not flagged.)
C23_PatientFullCost ==
    op = "run_coverage_checks" =>
        /\ AllAre(FullCostResults, "ERROR", "HIGH")
        /\ Len(FullCostResults) =
               Cardinality({e \in Positions("EOB") :
                   LET data == documents[e].extracted_data
                   IN  /\ PaidNothing(data)
                       /\ ~Differ(Amount(data, "total_patient_responsibility"),
                                  Amount(data, "total_billed"))})

\* what holds on the calls that return a list: the EOBs flagged are those
\* whose responsibility is less than 0.01 away from the billed total
C23_OnReturn ==
    (op = "run_coverage_checks" /\ err = "none") =>
        /\ AllAre(FullCostResults, "ERROR", "HIGH")
        /\ Len(FullCostResults) =
               Cardinality({e \in Positions("EOB") :
                   LET data == documents[e].extracted_data
                   IN  /\ PaidNothing(data)
                       /\ Amount(data, "total_patient_responsibility")
                              = Amount(data, "total_billed")})

\* a returned run with a flagged EOB and one whose insurance payment is
\* absent and whose responsibility is the billed total
C23_Reached ==
    /\ op = "run_coverage_checks" /\ err = "none"
    /\ FullCostResults # <<>>
    /\ \E e \in Positions("EOB") :
           LET data == documents[e].extracted_data
           IN  /\ ~Stated(data, "total_insurance_paid")
               /\ Stated(data, "total_billed")
               /\ Get(data, "total_patient_responsibility")
                      = Get(data, "total_billed")

----------------------------------------------------------------------------
(* The urgency of an appeal deadline: one denied EOB whose deadline is     *)
(* missing, malformed or any day up to MaxDeadline, read on the first day  *)
(* or later.                                                               *)

\* _get_appeal_urgency(_parse_date(appeal_deadline)) of the document;
\* results holds the tier returned
CallGetAppealUrgency ==
    /\ documents # <<>>
    /\ Returned("_get_appeal_urgency",
                Ok(<<_get_appeal_urgency(
                         _parse_date(Get(documents[1].extracted_data,
                                         "appeal_deadline")),
                         today)>>))
    /\ previous' = None

DeadlineEobData ==
    Merge({Named(N_HospitalA), "provider" :> None},
          Merge({"claim_status" :> Some(N_Denied)},
                Field("appeal_deadline",
                      {Malformed} \cup {IsoDate(d) : d \in 0..MaxDeadline})))

InitUrgency ==
    /\ documents \in {Packet(<<shape>>) : shape \in Shapes("EOB", DeadlineEobData)}
    /\ Idle

NextUrgency ==
    \/ CallGetAppealUrgency
    \/ CallCoverageChecks
    \/ Tick

SpecUrgency == InitUrgency /\ [][NextUrgency]_vars

\* the tier of the document's deadline on a given day, from the days that
\* remain
HasDeadline(doc) ==
    /\ Stated(doc.extracted_data, "appeal_deadline")
    /\ Val(Get(doc.extracted_data, "appeal_deadline")).iso
DaysRemaining(doc, now) ==
    Val(Get(doc.extracted_data, "appeal_deadline")).day - now
Tier(doc, now) ==
    IF ~HasDeadline(doc) THEN "unknown"
    ELSE IF DaysRemaining(doc, now) <= 14 THEN "urgent"
    ELSE IF DaysRemaining(doc, now) <= 30 THEN "soon"
    ELSE "normal"

\* C24: the urgency of an appeal deadline is "urgent" when at most 14 days
\* remain, "soon" when more than 14 and at most 30 remain, "normal" when
\* more than 30 remain and "unknown" without a parseable deadline; and the
\* detail of a claim_denied result carries the urgent marker iff the tier
\* is "urgent".
C24_UrgencyTiers ==
    [][/\ (op' = "_get_appeal_urgency" /\ today' = today)
           => results' = <<Tier(documents[1], today)>>
       /\ (op' = "run_coverage_checks" /\ today' = today)
           => \A i \in 1..Len(results') :
                  results'[i].check_name = "claim_denied"
                      => (results'[i].detail.urgent
                              <=> Tier(documents[1], today) = "urgent")]_vars

\* after midnight, a deadline 15 days from the first day is 14 days away:
\* the denial is marked urgent
C24_Witness ==
    /\ op = "run_coverage_checks" /\ err = "none"
    /\ today = 1
    /\ HasDeadline(documents[1])
    /\ DaysRemaining(documents[1], 0) = 15
    /\ \E i \in 1..Len(results) :
           results[i].check_name = "claim_denied" /\ results[i].detail.urgent

-----------------------------------------------------------------------------
(* The sign of potential_overcharge *)

Overcharge(r) == Val(r.potential_overcharge)

\* C25: in every result of every checker, potential_overcharge, when
\* present, is a strictly positive amount.
C25_PositiveOvercharge ==
    \A i \in 1..Len(results) :
        ~IsNone(results[i].potential_overcharge) => Overcharge(results[i]).num > 0

\* the checks that copy an extracted amount into potential_overcharge
\* without testing its sign
CopiedAmountChecks ==
    {"claim_denied", "line_item_denied", "appeal_upheld", "prior_auth_vs_denial"}

\* every other check computes its amount behind a test that makes it positive
C25_ComputedArePositive ==
    \A i \in 1..Len(results) :
        (/\ results[i].check_name \notin CopiedAmountChecks
         /\ ~IsNone(results[i].potential_overcharge))
            => Overcharge(results[i]).num > 0

\* a denied claim billed at 0 is reported with an overcharge of 0
C25_Reached ==
    /\ op = "run_coverage_checks"
    /\ err = "none"
    /\ \E i \in 1..Len(results) :
          /\ results[i].check_name = "claim_denied"
          /\ results[i].potential_overcharge = Money(0)

-----------------------------------------------------------------------------
(* The severity taxonomy *)

HighChecks ==
    {"bill_line_item_sum", "eob_vs_bill_amount", "claim_denied",
     "line_item_denied", "patient_full_cost", "prior_auth_denied",
     "appeal_upheld", "prior_auth_vs_denial"}

MediumChecks ==
    {"eob_billed_sum", "eob_paid_sum", "eob_patient_responsibility_breakdown",
     "bill_balance_due_math", "missing_eobs", "unmatched_bill",
     "line_item_over_allowed", "duplicate_cpt_cross_provider",
     "zero_allowed_amount", "prior_auth_expired"}

LowChecks == {"missing_bills", "unmatched_eob", "duplicate_cpt_same_provider"}

InfoChecks == {"appeal_overturned"}

TaxonomySeverity(name) ==
    CASE name \in HighChecks -> "HIGH"
      [] name \in MediumChecks -> "MEDIUM"
      [] name \in LowChecks -> "LOW"
      [] name \in InfoChecks -> "INFO"
      [] OTHER -> "none"

-----------------------------------------------------------------------------
(* The statuses of the results *)

FindingStatuses == {"MISMATCH", "WARNING", "ERROR", "INFO"}

\* C27: no result of run_all_validations has status PASS: every result is
\* a MISMATCH, WARNING, ERROR or INFO, a document whose math comparisons are
\* within the tolerance has no math result, and matched pairs whose amounts
\* are within the tolerance have no eob_vs_bill_amount result.
C27_NoPassResult ==
    op = "run_all_validations" =>
        /\ \A i \in 1..Len(results) : results[i].status \in FindingStatuses
        /\ \A doc \in DocumentsOf("EOB") :
               EobConsistent(doc.extracted_data) => ResultsOf(doc) = <<>>
        /\ \A doc \in DocumentsOf("MEDICAL_BILL") :
               BillConsistent(doc.extracted_data) => ResultsOf(doc) = <<>>
        /\ DifferingPairs = {} => ResultsNamed(results, "eob_vs_bill_amount") = <<>>

\* a returned list with findings, for a packet whose bill has both
\* comparisons applicable and within the tolerance and whose matched pair
\* states equal amounts
C27_Witness ==
    /\ op = "run_all_validations"
    /\ err = "none"
    /\ results # <<>>
    /\ AmountPairs # {}
    /\ DifferingPairs = {}
    /\ \E doc \in DocumentsOf("MEDICAL_BILL") :
          LET data == doc.extracted_data
          IN  /\ BillConsistent(data)
              /\ Stated(data, "total_charges") /\ ItemsOf(data) # <<>>
              /\ Stated(data, "balance_due")
              /\ ResultsOf(doc) = <<>>

-----------------------------------------------------------------------------
(* The frame of a call *)

CheckerNames ==
    <<"run_math_checks", "run_billing_reconciliation_checks",
      "run_duplicate_detection", "run_coverage_checks">>

\* what the k-th checker of the fixed order gives on the packet
Outcome(k, docs, now) ==
    CASE k = 1 -> Ok(run_math_checks(docs))
      [] k = 2 -> run_billing_reconciliation_checks(docs)
      [] k = 3 -> run_duplicate_detection(docs)
      [] k = 4 -> run_coverage_checks(docs, now)

\* the orders in which the four checkers can be run
Orders == {p \in [1..4 -> 1..4] : \A i, j \in 1..4 : p[i] = p[j] => i = j}

\* the lists of the four checkers concatenated in the fixed order and
\* sorted, when none of them raised
Concatenated(outs) ==
    IF \E k \in 1..4 : outs[k].err # "none" THEN <<>>
    ELSE SortBySeverity(outs[1].results \o outs[2].results
                            \o outs[3].results \o outs[4].results)

\* the four checkers run in the order p with the outcomes outs: the first
\* checker to raise, in the order p, ends the run; otherwise the run
\* returns the list all
RunInOrder(p, outs, all) ==
    LET failing == {i \in 1..4 : outs[p[i]].err # "none"}
    IN  IF failing = {} THEN Ok(all)
        ELSE Raise(outs[p[CHOOSE i \in failing : \A j \in failing : i <= j]].err)

\* a step that is a call: the clock does not move in it
IsCall == today' = today

-----------------------------------------------------------------------------
(* The action list of the workflow *)

NextSummary == ValidateDocuments \/ Summarize \/ Tick

SpecSummary == Init /\ [][NextSummary]_vars

HasRecommendation(r) ==
    ~IsNone(r.recommendation) /\ Val(r.recommendation) # ""

EntriesFor(severity, prefix) ==
    LET rs == SelectSeq(results,
                  LAMBDA r : r.severity = severity /\ HasRecommendation(r))
    IN  [i \in 1..Len(rs) |->
            [prefix |-> prefix, recommendation |-> Val(rs[i].recommendation)]]

\* C29: the action list built from the orchestrator's result list holds, in
\* result order, one URGENT entry for each HIGH result that has a
\* recommendation, followed by one INVESTIGATE entry for each MEDIUM result
\* that has a recommendation, and nothing for a LOW or INFO result.
C29_UrgencyRanked ==
    op = "summarize" =>
        actions = EntriesFor("HIGH", "URGENT") \o EntriesFor("MEDIUM", "INVESTIGATE")

\* an action list with URGENT and INVESTIGATE entries, built from a result
\* list that also holds a LOW result
C29_Witness ==
    /\ op = "summarize"
    /\ \E i, j \in 1..Len(actions) :
          actions[i].prefix = "URGENT" /\ actions[j].prefix = "INVESTIGATE"
    /\ \E i \in 1..Len(results) : results[i].severity = "LOW"
    /\ Len(actions) < Len(results)

-----------------------------------------------------------------------------
(* Documents without a provider name *)

\* the provider block absent, null or empty, the name absent, null or empty
NamelessBlocks ==
    {EmptyDict, "provider" :> None, "provider" :> Some(EmptyDict),
     "provider" :> Some("name" :> None), "provider" :> Some("name" :> Some(<<>>))}

ServiceDay == Field("date_of_service_start", {IsoDate(0)})

NamelessEobData ==
    Merge(NamelessBlocks \cup {Named(N_HospitalA)},
          Merge(ServiceDay,
                {("total_patient_responsibility" :> Some(2))
                     @@ ("line_items" :> Some(<<AllowedItem("99213", 1)>>))}))

NamelessBillData ==
    Merge(NamelessBlocks \cup {Named(N_hosp_a)},
          Merge(ServiceDay,
                {("balance_due" :> Some(5))
                     @@ ("line_items" :> Some(<<ChargedItem("99213", 3)>>))}))

InitNameless ==
    /\ documents \in
           {Packet(shapes) :
               shapes \in SeqsUpTo(Shapes("EOB", NamelessEobData)
                                       \cup Shapes("MEDICAL_BILL", NamelessBillData),
                                   MaxDocs)}
    /\ Idle

SpecNameless == InitNameless /\ [][CallBillingReconciliation]_vars

Nameless(doc) ==
    LET data == doc.extracted_data
    IN  \/ ~Stated(data, "provider")
        \/ ~Stated(Val(data.provider), "name")
        \/ Val(Val(data.provider).name) = <<>>

NamelessAt(type) == {i \in Positions(type) : Nameless(documents[i])}

\* the pairs of an EOB and a bill that both have a provider name
NamedPairs ==
    (Positions("EOB") \ NamelessAt("EOB"))
        \X (Positions("MEDICAL_BILL") \ NamelessAt("MEDICAL_BILL"))

\* the name an unmatched document without a provider name is reported under
NamelessForms == {None, Some(<<>>), Some(S_Unknown)}

ReportedNameless(name) ==
    SelectSeq(ResultsNamed(results, name),
              LAMBDA r : r.detail.names[1] \in NamelessForms)

\* C30: an EOB or a bill without a provider name matches no counterpart:
\* there are at most as many eob_vs_bill_amount results as pairs of named
\* documents, no line_item_over_allowed result when there is no such pair,
\* and every nameless EOB and bill is reported as unmatched_eob or
\* unmatched_bill.  (Violated: a null provider block makes the call raise,
\* see C4.)
C30_NamelessNeverMatches ==
    op = "run_billing_reconciliation_checks" =>
        /\ Len(ResultsNamed(results, "eob_vs_bill_amount")) <= Cardinality(NamedPairs)
        /\ NamedPairs = {} => ResultsNamed(results, "line_item_over_allowed") = <<>>
        /\ Len(ReportedNameless("unmatched_eob")) = Cardinality(NamelessAt("EOB"))
        /\ Len(ReportedNameless("unmatched_bill")) = Cardinality(NamelessAt("MEDICAL_BILL"))

\* C30 on the calls that return a list
C30_OnReturn == err = "none" => C30_NamelessNeverMatches

\* a nameless EOB and a named bill, neither with a date of service, both
\* reported as unmatched
C30_Reached ==
    /\ op = "run_billing_reconciliation_checks"
    /\ err = "none"
    /\ Len(documents) = 2
    /\ NamelessAt("EOB") = {1}
    /\ Positions("MEDICAL_BILL") = {2} /\ NamelessAt("MEDICAL_BILL") = {}
    /\ \A i \in 1..2 : ~Stated(documents[i].extracted_data, "date_of_service_start")
    /\ Len(ResultsNamed(results, "unmatched_eob")) = 1
    /\ Len(ResultsNamed(results, "unmatched_bill")) = 1
    /\ ResultsNamed(results, "eob_vs_bill_amount") = <<>>

====
